---- MODULE Spec2Model ----
(***************************************************************************)
(* Peer-Drop: the signaling hub (internal/signaling: hub.go, room.go,      *)
(* client.go) and the peer-side transfer coordinator                       *)
(* (web/static/js/file-transfer.js).                                       *)
(*                                                                         *)
(* The hub runs one ReadPump goroutine per client; a handler is split      *)
(* into two actions where the code releases the table lock between a       *)
(* lookup and the act that depends on it (JoinIPRoom, CreatePublicRoom,    *)
(* JoinPublicRoom), so that the goroutines interleave there.               *)
(* An unrecovered Go panic (a send on a closed channel) ends the process:  *)
(* the hub's memory is gone, which Crash models.                           *)
(***************************************************************************)
EXTENDS Integers, Sequences, FiniteSets, TLC

\* ------------------------------------------------------------------ bounds
NumClients == 2
\* client.go:48 makes the outbound queue 256 deep; the model keeps it short.
SendCap == 2
\* Messages the ReadPumps handle in one run, and in a run checked for liveness.
MaxOps == 4
LiveOps == 2
RoomOps == 5
\* Operations begun in a run that follows the locks.
LockOps == 2
\* Room objects alive at once.
MaxRooms == 3

Clients == 1..NumClients
RoomObjs == 1..MaxRooms
Nil == 0

\* GenerateRoomCode draws 5 characters of the 32-letter charset; two of the codes.
Codes == {"AB12C", "XY34Z"}

RelayTypes == {"offer", "answer", "ice-candidate",
               "transfer-request", "transfer-response", "relay-chunk"}

VARIABLES
    clients,      \* Hub.clients: the registered client ids
    sendClosed,   \* clients whose send channel Unregister has closed
    ipRooms,      \* Hub.ipRooms: room id -> room object
    publicRooms,  \* Hub.publicRooms: code -> room object
    rooms,        \* the Room objects: object -> [id, isPublic, clients]
    ipRoom,       \* Client.ipRoom: room object or Nil
    publicRoom,   \* Client.publicRoom: room object or Nil
    send,         \* Client.send: the buffered channel's content
    pc,           \* where each client's ReadPump is inside a handler
    tmp,          \* the handler's locals: the room looked up, the code drawn
    panicked,     \* the process died of an unrecovered panic
    budget,       \* messages the ReadPumps may still read in this run
    writeStopped, \* clients whose WritePump has returned
    wire,         \* the transport writes, oldest first, of the clients whose
                  \* connection is traced
    request,      \* the HTTP request of each connection: r.RemoteAddr and its
                  \* X-Forwarded-For header
    running       \* the lock calls of the operation each goroutine is in,
                  \* and the one it is at: 0 is the sweep, 1..NumClients
                  \* serve the clients, NumClients + 1 serves /stats

hubVars == <<clients, sendClosed, ipRooms, publicRooms, rooms, ipRoom,
             publicRoom, send, pc, tmp, panicked, budget, writeStopped,
             wire, request, running>>

\* The two peers of a transfer: the initiator's and the recipient's
\* FileTransferManager, the signaling path between them and their data channel.
VARIABLES
    transfer,           \* the initiator's transfer objects: id -> [status, useRelay, files]
    outgoingTransfers,  \* the ids held in the initiator's outgoingTransfers map
    loops,              \* the initiator's handleTransferResponse calls that are at an await
    incomingTransfers,  \* the recipient's incomingTransfers map: id -> transfer state
    wsToRecipient,      \* signaling messages on their way to the recipient
    wsToInitiator,      \* signaling messages on their way to the initiator
    channel,            \* the initiator's data channels to the recipient: the
                        \* state of each one created, and the one recorded
                        \* for the peer in WebRTCManager.dataChannels
    dc,                 \* frames sent on a data channel and not yet received,
                        \* each with the channel it is on
    sink,               \* what downloadBlob was given, in order
    responses,          \* id -> the accepted flags of the transfer-responses sent for it
    sentDirect,         \* ids for which a data channel frame was sent
    sentRelay,          \* ids for which a relay-chunk was sent
    streams,            \* id -> send loops started for it so far
    completedDirect,    \* ids the recipient completed on a complete frame
    completedRelay,     \* ids the recipient completed on an isLast relay-chunk
    clicks              \* accept / reject clicks the recipient's user may still make

peerVars == <<transfer, outgoingTransfers, loops, incomingTransfers,
              wsToRecipient, wsToInitiator, channel, dc, sink, responses,
              sentDirect, sentRelay, streams, completedDirect, completedRelay,
              clicks>>

\* The peers' variables but the data channels.
transferVars == <<transfer, outgoingTransfers, loops, incomingTransfers,
                  wsToRecipient, wsToInitiator, dc, sink, responses,
                  sentDirect, sentRelay, streams, completedDirect,
                  completedRelay, clicks>>

\* One peer's WebRTCManager (webrtc.js), for one remote peer.
VARIABLES
    sessions,           \* the RTCPeerConnections made for the peer, in order
    connection,         \* the one held in WebRTCManager.connections, or Nil
    pendingCandidates,  \* the peer's entry of WebRTCManager.pendingCandidates
    applied,            \* the addIceCandidate calls made so far, in order
    queued,             \* the candidates that were put in pendingCandidates
    calls,              \* the manager's async calls that are at an await
    arrivals            \* signaling messages the manager has received so far

rtcVars == <<sessions, connection, pendingCandidates, applied, queued, calls,
             arrivals>>

\* One peer's WebSocketManager (websocket.js).
VARIABLES
    sockets,               \* the WebSockets made so far: the state of each;
                           \* this.ws is the last one
    isConnected,           \* WebSocketManager.isConnected
    reconnectAttempts,     \* WebSocketManager.reconnectAttempts
    maxReconnectAttempts,  \* WebSocketManager.maxReconnectAttempts
    messageQueue,          \* WebSocketManager.messageQueue
    timers,                \* reconnect timers that are set and have not fired
    transmitted,           \* what ws.send was given so far, with the socket
    handed,                \* messages handed to send() so far, with whether
                           \* the manager was connected then
    stopped,               \* disconnect() was called
    streak,                \* automatic reconnects since the last open
    reconnectDelay,        \* WebSocketManager.reconnectDelay
    waits,                 \* the delays of the reconnect timers set since
                           \* the last open, in order
    joins                  \* the messages handed to send() by the page's
                           \* 'open' listener: the joins

sigVars == <<sockets, isConnected, reconnectAttempts, maxReconnectAttempts,
             messageQueue, timers, transmitted, handed, stopped, streak,
             reconnectDelay, waits, joins>>

vars == <<hubVars, peerVars, rtcVars, sigVars>>

\* ---------------------------------------------------------------- messages
PeerInfo(c) == [id |-> c]
NewPeersMessage(peers) == [type |-> "peers", peers |-> peers]
NewPeerJoinedMessage(p) == [type |-> "peer-joined", peer |-> p]
NewPeerLeftMessage(id) == [type |-> "peer-left", peerId |-> id]
NewRoomCreatedMessage(code) == [type |-> "room-created", code |-> code]
NewRoomJoinedMessage(code, peers) ==
    [type |-> "room-joined", code |-> code, peers |-> peers]
NewRoomErrorMessage(err) == [type |-> "room-error", error |-> err]
NewPongMessage == [type |-> "pong"]
\* relayToTarget stamps the sender's id on the envelope it forwards.
RelayedMessage(c, ty, target) ==
    [type |-> ty, peerId |-> c, targetId |-> target]

\* ------------------------------------------------------------------- rooms
NoTmp == [room |-> Nil, code |-> ""]

NewRoom(id, isPublic) == [id |-> id, isPublic |-> isPublic, clients |-> {}]
NoRoom == NewRoom("", FALSE)

Range(f) == {f[x] : x \in DOMAIN f}
Min(S) == CHOOSE x \in S : \A y \in S : x <= y

\* map insert / delete
Put(f, k, v) == [x \in DOMAIN f \cup {k} |-> IF x = k THEN v ELSE f[x]]
Delete(f, k) == [x \in DOMAIN f \ {k} |-> f[x]]

\* The hub's state as one record, so that a handler is a function on it.
Hub ==
    [clients |-> clients, sendClosed |-> sendClosed, ipRooms |-> ipRooms,
     publicRooms |-> publicRooms, rooms |-> rooms, ipRoom |-> ipRoom,
     publicRoom |-> publicRoom, send |-> send, pc |-> pc, tmp |-> tmp,
     panicked |-> panicked, budget |-> budget, wire |-> wire]

\* Room objects something in h still points to; the others are garbage.
Reachable(h) ==
    Range(h.ipRooms) \cup Range(h.publicRooms)
    \cup {h.ipRoom[c] : c \in h.clients} \cup {h.publicRoom[c] : c \in h.clients}
    \cup {h.tmp[c].room : c \in h.clients}

FreeRooms == RoomObjs \ Reachable(Hub)

\* The garbage collector: a Room nothing points to is gone, and so are the
\* room pointers of a Client whose ReadPump has returned.
Collected(h, live) ==
    [h EXCEPT
        !.rooms = [r \in RoomObjs |->
                      IF r \in live THEN h.rooms[r] ELSE NoRoom],
        !.ipRoom = [c \in Clients |-> IF c \in h.clients THEN h.ipRoom[c] ELSE Nil],
        !.publicRoom = [c \in Clients |->
                           IF c \in h.clients THEN h.publicRoom[c] ELSE Nil]]


\* The next state is h.
Becomes(h) ==
    \E hv \in {h} : \E g \in {Collected(hv, Reachable(hv))} :
    /\ clients' = g.clients
    /\ sendClosed' = g.sendClosed
    /\ ipRooms' = g.ipRooms
    /\ publicRooms' = g.publicRooms
    /\ rooms' = g.rooms
    /\ ipRoom' = g.ipRoom
    /\ publicRoom' = g.publicRoom
    /\ send' = g.send
    /\ pc' = g.pc
    /\ tmp' = g.tmp
    /\ panicked' = g.panicked
    /\ budget' = g.budget
    /\ wire' = g.wire
    /\ UNCHANGED <<writeStopped, request, running, peerVars, rtcVars, sigVars>>

\* Every client connects from its own host of 192.168.0.0/24, no proxy.
SameSubnet ==
    [c \in Clients |->
        [remoteAddr |-> <<[form |-> "v4", b |-> <<192, 168, 0, c>>, port |-> 40000 + c]>>,
         xForwardedFor |-> <<>>]]

\* The requests of the clients: r.RemoteAddr is an IPv4 or IPv6 address and a
\* port; the X-Forwarded-For header is absent, or what the proxies in front
\* wrote: one address, IPv4, IPv6 or IPv4-mapped, a list of them, or a word.
Requests ==
    LET v4(b, p) == [form |-> "v4", b |-> b, port |-> p]
        v6(hi, lo, p) == [form |-> "v6", b |-> hi \o lo, port |-> p]
        net == <<32, 1, 13, 184, 0, 0, 0, 0>>
        net1 == <<32, 1, 13, 184, 0, 0, 0, 1>>
        zero == <<0, 0, 0, 0, 0, 0, 0, 0>>
        mapped(b) == <<0, 0, 255, 255>> \o b
        word == [form |-> "text", b |-> <<>>, port |-> Nil]
        remotes == {<<v4(<<192, 168, 0, 10>>, 40001)>>,
                    <<v4(<<192, 168, 0, 10>>, 40002)>>,
                    <<v4(<<192, 168, 1, 10>>, 40001)>>,
                    <<v6(net, <<0, 0, 0, 0, 0, 0, 0, 1>>, 40001)>>}
        headers == {<<>>,
                    <<v4(<<192, 168, 0, 10>>, Nil)>>,
                    <<v4(<<192, 168, 0, 20>>, Nil)>>,
                    <<v4(<<192, 168, 0, 20>>, Nil), v4(<<10, 0, 0, 1>>, Nil)>>,
                    <<v6(net, <<0, 0, 0, 0, 0, 0, 0, 2>>, Nil)>>,
                    <<v6(net1, <<0, 0, 0, 0, 0, 0, 0, 2>>, Nil)>>,
                    <<v6(zero, mapped(<<192, 168, 0, 10>>), Nil)>>,
                    <<v6(zero, mapped(<<192, 168, 1, 10>>), Nil)>>,
                    <<word>>}
    IN [Clients -> [remoteAddr : remotes, xForwardedFor : headers]]


\* NewHub; the requests to come are drawn from requests, and the connections
\* of the clients in traced are traced.
HubInit(ops, requests, traced) ==
    /\ request \in requests
    /\ wire = [c \in traced |-> <<>>]
    /\ clients = {}
    /\ sendClosed = {}
    /\ ipRooms = <<>>
    /\ publicRooms = <<>>
    /\ rooms = [r \in RoomObjs |-> NoRoom]
    /\ ipRoom = [c \in Clients |-> Nil]
    /\ publicRoom = [c \in Clients |-> Nil]
    /\ send = [c \in Clients |-> <<>>]
    /\ pc = [c \in Clients |-> "idle"]
    /\ tmp = [c \in Clients |-> NoTmp]
    /\ panicked = FALSE
    /\ budget = ops
    /\ writeStopped = {}
    /\ running = [t \in 0..(NumClients + 1) |-> [code |-> <<>>, at |-> 1]]

\* An unrecovered panic ends the process: nothing of the hub is left.
Crashed(h) ==
    [clients |-> {}, sendClosed |-> {}, ipRooms |-> <<>>, publicRooms |-> <<>>,
     rooms |-> [r \in RoomObjs |-> NoRoom], ipRoom |-> [c \in Clients |-> Nil],
     publicRoom |-> [c \in Clients |-> Nil], send |-> [c \in Clients |-> <<>>],
     pc |-> [c \in Clients |-> "idle"], tmp |-> [c \in Clients |-> NoTmp],
     panicked |-> TRUE, budget |-> h.budget, wire |-> h.wire]

\* A string that holds addresses is the sequence of the texts a ", " joins:
\* <<>> is "", a text is [form, b, port] with port Nil for none:
\*   form "v4"   a.b.c.d or a.b.c.d:port, b its four octets;
\*   form "v6"   an IPv6 text, in brackets when a port follows, b its sixteen
\*               bytes (::ffff:a.b.c.d is one of them);
\*   form "text" anything else, b = <<>>.
\* hub.go 62-65: the ip HandleWebSocket gives the client.
ip(c) ==
    IF request[c].xForwardedFor # <<>> THEN request[c].xForwardedFor
    ELSE request[c].remoteAddr


\* room.go 121-151. net.SplitHostPort fails on a string without a port,
\* net.ParseIP gives the 16-byte form (an IPv4 address behind the prefix
\* ::ffff:) or nil, here <<>>, and To4 the last four bytes of a 16-byte form
\* with that prefix.
ExtractIPRoomID(remoteAddr, xForwardedFor) ==
    LET first == IF xForwardedFor # <<>> THEN <<xForwardedFor[1]>> ELSE remoteAddr
        host == IF Len(first) = 1 /\ first[1].port # Nil
                THEN <<[first[1] EXCEPT !.port = Nil]>> ELSE first
        v4InV6Prefix == <<0, 0, 0, 0, 0, 0, 0, 0, 0, 0, 255, 255>>
        parsed == IF Len(host) # 1 \/ host[1].port # Nil THEN <<>>
                  ELSE IF host[1].form = "v4" THEN v4InV6Prefix \o host[1].b
                  ELSE host[1].b
        v4 == IF parsed # <<>> /\ SubSeq(parsed, 1, 12) = v4InV6Prefix
              THEN SubSeq(parsed, 13, 16) ELSE <<>>
        Digits == <<"0", "1", "2", "3", "4", "5", "6", "7", "8", "9",
                    "a", "b", "c", "d", "e", "f">>
        d(n) == (IF n >= 100 THEN <<Digits[(n \div 100) + 1]>> ELSE <<>>)
                \o (IF n >= 10 THEN <<Digits[((n \div 10) % 10) + 1]>> ELSE <<>>)
                \o <<Digits[(n % 10) + 1]>>
        x(n) == <<Digits[(n \div 16) + 1], Digits[(n % 16) + 1]>>
    IN IF parsed = <<>> THEN <<"default">>
       ELSE IF v4 # <<>>
       THEN d(v4[1]) \o <<".">> \o d(v4[2]) \o <<".">> \o d(v4[3])
       ELSE x(parsed[1]) \o x(parsed[2]) \o <<":">> \o x(parsed[3]) \o x(parsed[4])
            \o <<":">> \o x(parsed[5]) \o x(parsed[6]) \o <<":">>
            \o x(parsed[7]) \o x(parsed[8])

\* Room.IsEmpty
IsEmpty(h, r) == h.rooms[r].clients = {}

\* Room.AddClient, Room.RemoveClient
AddClient(h, r, c) == [h EXCEPT !.rooms[r].clients = @ \cup {c}]
RemoveClient(h, r, c) == [h EXCEPT !.rooms[r].clients = @ \ {c}]

\* Room.GetPeerInfos(excludeID)
GetPeerInfos(h, r, exclude) ==
    {PeerInfo(c) : c \in h.rooms[r].clients \ {exclude}}

\* ------------------------------------------------------------------- sends
\* Client.Send: a send on a closed channel panics (also inside a select with
\* a default); on an open one the message is queued, or dropped when the
\* buffer is full.
SendGrows(h, c, m) ==
    IF h.panicked THEN h
    ELSE IF c \in h.sendClosed THEN Crashed(h)
    ELSE [h EXCEPT !.send[c] = Append(@, m)]
Send(h, c, m) ==
    IF h.panicked THEN h
    ELSE IF c \in h.sendClosed THEN Crashed(h)
    ELSE IF Len(h.send[c]) < SendCap THEN [h EXCEPT !.send[c] = Append(@, m)]
    ELSE h

\* Send to each client of the set cs, in any order: the queues are distinct.
RECURSIVE SendAll(_, _, _)
SendAll(h, cs, m) ==
    IF cs = {} THEN h
    ELSE LET c == Min(cs) IN SendAll(Send(h, c, m), cs \ {c}, m)

\* Room.Broadcast(msg, excludeID)
Broadcast(h, r, m, exclude) ==
    IF h.panicked THEN h ELSE SendAll(h, h.rooms[r].clients \ {exclude}, m)

\* Room.RelayTo(targetID, msg): the state after, and whether the room lists
\* the target.
RelayToUnlisted(h, r, target, m) ==
    [hub |-> Send(h, target, m), ok |-> TRUE]
RelayTo(h, r, target, m) ==
    IF target \in h.rooms[r].clients
    THEN [hub |-> Send(h, target, m), ok |-> TRUE]
    ELSE [hub |-> h, ok |-> FALSE]

\* ------------------------------------------------------------ ReadPump
\* A ReadPump that is between two messages.
Idle(c) ==
    /\ ~panicked
    /\ c \in clients
    /\ pc[c] = "idle"

\* A ReadPump that may read its next message.
Ready(c) == Idle(c) /\ budget > 0

\* One more message read.
Counted(h) == [h EXCEPT !.budget = budget - 1]

\* Hub.HandleWebSocket: register the client and start its pumps. The hub
\* assigns the id: the k-th connection is client k.
HandleWebSocket(c) ==
    /\ ~panicked
    /\ c = Cardinality(clients \cup sendClosed) + 1
    /\ Becomes([Hub EXCEPT !.clients = @ \cup {c}])

\* Handlers that drew a code and have not allocated their room yet.
CanAllocate ==
    Cardinality(FreeRooms) > Cardinality({c \in Clients : pc[c] = "create"})

\* -------------------------------------------------------------- JoinIPRoom
\* hub.go 128-136: under ipRoomsMu, look the room up and create it if absent.
JoinIPRoomLookup(c) ==
    /\ Ready(c)
    /\ LET id == ExtractIPRoomID(ip(c), <<>>)
           h == Counted([Hub EXCEPT !.pc[c] = "joinIP"])
       IN IF id \in DOMAIN ipRooms
          THEN Becomes([h EXCEPT !.tmp[c] = [room |-> ipRooms[id], code |-> ""]])
          ELSE /\ CanAllocate
               /\ LET r == Min(FreeRooms) IN
                    Becomes([h EXCEPT !.rooms[r] = NewRoom(id, FALSE),
                                      !.ipRooms = Put(@, id, r),
                                      !.tmp[c] = [room |-> r, code |-> ""]])

\* hub.go 138-151: add the client, send it the peer list, tell the others.
JoinIPRoomAdd(c) ==
    /\ ~panicked
    /\ pc[c] = "joinIP"
    /\ LET r == tmp[c].room
           h1 == [AddClient(Hub, r, c) EXCEPT !.ipRoom[c] = r]
           h2 == Send(h1, c, NewPeersMessage(GetPeerInfos(h1, r, c)))
           h3 == Broadcast(h2, r, NewPeerJoinedMessage(PeerInfo(c)), c)
       IN Becomes(IF h3.panicked THEN h3
                  ELSE [h3 EXCEPT !.pc[c] = "idle", !.tmp[c] = NoTmp])

\* -------------------------------------------------------- CreatePublicRoom
\* hub.go 157-166: draw codes until one is not in the table (read lock only).
CreatePublicRoomGenerate(c) ==
    /\ Ready(c)
    /\ CanAllocate
    /\ \E code \in Codes \ DOMAIN publicRooms :
        Becomes(Counted([Hub EXCEPT !.pc[c] = "create",
                                    !.tmp[c] = [room |-> Nil, code |-> code]]))

\* hub.go 168-177: make the room with the client in it, store it under the
\* code, point the client at it.
CreatePublicRoom(h, c, code, r) ==
    [AddClient([h EXCEPT !.rooms[r] = NewRoom(code, TRUE)], r, c)
        EXCEPT !.publicRooms = Put(@, code, r), !.publicRoom[c] = r]

\* hub.go 168-177 and client.go 197-198: the room is made, room-created sent.
CreatePublicRoomInsert(c) ==
    /\ ~panicked
    /\ pc[c] = "create"
    /\ LET code == tmp[c].code
           h1 == CreatePublicRoom(Hub, c, code, Min(FreeRooms))
           h2 == Send(h1, c, NewRoomCreatedMessage(code))
       IN Becomes([h2 EXCEPT !.pc[c] = "idle", !.tmp[c] = NoTmp])

\* --------------------------------------------------------- LeavePublicRoom
\* hub.go 214-234
LeavePublicRoom(h, c) ==
    IF h.publicRoom[c] = Nil THEN h
    ELSE LET r == h.publicRoom[c]
             h1 == RemoveClient(h, r, c)
             h2 == Broadcast(h1, r, NewPeerLeftMessage(c), c)
             h3 == IF IsEmpty(h2, r)
                   THEN [h2 EXCEPT !.publicRooms = Delete(@, h2.rooms[r].id)]
                   ELSE h2
         IN IF h2.panicked THEN h2 ELSE [h3 EXCEPT !.publicRoom[c] = Nil]

\* ---------------------------------------------------------- JoinPublicRoom
\* A JoinPublicRoom that leaves the current coded room before it looks the
\* code up.
JoinPublicRoomLeavesFirst(c, code) ==
    /\ Ready(c)
    /\ LET h1 == LeavePublicRoom(Hub, c)
       IN IF code \notin DOMAIN h1.publicRooms
          THEN Becomes(Counted(Send(h1, c, NewRoomErrorMessage("room not found"))))
          ELSE Becomes(Counted([h1 EXCEPT
                   !.pc[c] = "joinPub",
                   !.tmp[c] = [room |-> h1.publicRooms[code], code |-> code]]))

\* hub.go 182-188 and client.go 211-215: look the code up under the read
\* lock; an unknown code is answered with room-error.
JoinPublicRoomLookup(c, code) ==
    /\ Ready(c)
    /\ IF code \notin DOMAIN publicRooms
       THEN Becomes(Counted(Send(Hub, c, NewRoomErrorMessage("room not found"))))
       ELSE Becomes(Counted([Hub EXCEPT
                !.pc[c] = "joinPub",
                !.tmp[c] = [room |-> publicRooms[code], code |-> code]]))

\* hub.go 190-210: leave the current coded room if any, add the client to the
\* room looked up, send room-joined, tell the others.
JoinPublicRoomAdd(c) ==
    /\ ~panicked
    /\ pc[c] = "joinPub"
    /\ LET r == tmp[c].room
           h1 == LeavePublicRoom(Hub, c)
           h2 == [AddClient(h1, r, c) EXCEPT !.publicRoom[c] = r]
           h3 == Send(h2, c, NewRoomJoinedMessage(tmp[c].code,
                                                  GetPeerInfos(h2, r, c)))
           h4 == Broadcast(h3, r, NewPeerJoinedMessage(PeerInfo(c)), c)
       IN Becomes(IF h1.panicked THEN h1
                  ELSE IF h4.panicked THEN h4
                  ELSE [h4 EXCEPT !.pc[c] = "idle", !.tmp[c] = NoTmp])

\* client.go 221-226: leave-room.
handleLeaveRoom(c) ==
    /\ Ready(c)
    /\ LET h1 == LeavePublicRoom(Hub, c)
       IN Becomes(IF h1.panicked THEN h1 ELSE Counted(h1))

\* ------------------------------------------------------------------- relay
\* client.go 229-249: nothing for an empty target id (Nil); else RelayTo on
\* the auto-scope room, and on the coded room if that did not deliver.
relay(h, c, m) ==
    IF m.targetId = Nil THEN h
    ELSE LET viaIP == IF h.ipRoom[c] # Nil
                      THEN RelayTo(h, h.ipRoom[c], m.targetId, m)
                      ELSE [hub |-> h, ok |-> FALSE]
         IN IF viaIP.ok THEN viaIP.hub
            ELSE IF h.publicRoom[c] # Nil
                 THEN RelayTo(h, h.publicRoom[c], m.targetId, m).hub
                 ELSE h


\* messages.go 29-34: the envelopes a client can submit for relay: the type
\* (two of the relayed types), the peerId it chose to write, the target, the
\* payload ("" for none).
Inbound ==
    [type : {"offer", "relay-chunk"}, peerId : Clients \cup {Nil},
     targetId : Clients \cup {Nil}, payload : {"", "sdp"}]

\* client.go 150-151 and 235-236: the envelope decoded into a Message, the
\* sender's id put in PeerID, and encoded again.
Unstamped(c, msg) == msg
Stamped(c, msg) == [msg EXCEPT !.peerId = c]

\* client.go 159-164 and 229-249: an inbound envelope of a relayed type.
relayInbound(c, msg) ==
    /\ Ready(c)
    /\ LET h1 == relay(Hub, c, Stamped(c, msg))
       IN Becomes(IF h1.panicked THEN h1 ELSE Counted(h1))

\* An inbound offer, answer, ice-candidate, transfer-request,
\* transfer-response or relay-chunk.
relayToTarget(c, ty, target) ==
    /\ Ready(c)
    /\ LET h1 == relay(Hub, c, RelayedMessage(c, ty, target))
       IN Becomes(IF h1.panicked THEN h1 ELSE Counted(h1))

\* -------------------------------------------------------------- Unregister
\* hub.go 82-124
UnregisterClient(h, c) ==
    LET r == h.ipRoom[c]
        h1 == IF r = Nil THEN h ELSE RemoveClient(h, r, c)
        h2 == IF r = Nil THEN h1
              ELSE Broadcast(h1, r, NewPeerLeftMessage(c), c)
        h3 == IF r # Nil /\ IsEmpty(h2, r)
              THEN [h2 EXCEPT !.ipRooms = Delete(@, h2.rooms[r].id)]
              ELSE h2
        p == h3.publicRoom[c]
        h4 == IF p = Nil THEN h3 ELSE RemoveClient(h3, p, c)
        h5 == IF p = Nil THEN h4
              ELSE Broadcast(h4, p, NewPeerLeftMessage(c), c)
        h6 == IF p # Nil /\ IsEmpty(h5, p)
              THEN [h5 EXCEPT !.publicRooms = Delete(@, h5.rooms[p].id)]
              ELSE h5
    IN IF h2.panicked THEN h2
       ELSE IF h5.panicked THEN h5
       ELSE [h6 EXCEPT !.clients = @ \ {c}, !.sendClosed = @ \cup {c}]

\* client.go 80-83: ReadPump's read failed; it unregisters the client.
Unregister(c) ==
    /\ Idle(c)
    /\ Becomes(UnregisterClient(Hub, c))

\* --------------------------------------------------------------- WritePump
\* The text of a transport write is a sequence of tokens: the JSON text of a
\* message, which json.Marshal writes without a line break, or the byte '\n'.
Newline == [type |-> "\n"]

\* A transport write that puts no separator between the messages.
FrameUnseparated(ms) == ms
\* client.go 123-133: w.Write(message), then '\n' and the next message for
\* each of the n messages taken with it.
Frame(ms) ==
    [i \in 1..(2 * Len(ms) - 1) |->
        IF i % 2 = 1 THEN ms[(i + 1) \div 2] ELSE Newline]

\* client.go 114-137: one transport write takes the head of the queue and the
\* n messages queued when len(c.send) is read; what is sent after stays.
WritePump(c) ==
    /\ ~panicked
    /\ c \notin writeStopped
    /\ send[c] # <<>>
    /\ \E k \in 1..Len(send[c]) :
        Becomes([Hub EXCEPT !.send[c] = SubSeq(@, k + 1, Len(@)),
                            !.wire = IF c \in DOMAIN @
                                     THEN Put(@, c, Append(@[c], Frame(SubSeq(send[c], 1, k))))
                                     ELSE @])

\* A WritePump that returns on a failed write only.
WritePumpIgnoresClose(c) ==
    /\ ~panicked
    /\ c \in clients \ writeStopped
    /\ writeStopped' = writeStopped \cup {c}
    /\ UNCHANGED <<clients, sendClosed, ipRooms, publicRooms, rooms, ipRoom,
                   publicRoom, send, pc, tmp, panicked, budget, wire,
                   request, running, peerVars, rtcVars, sigVars>>

\* client.go 107-110, 116-125, 135-143: WritePump returns, because the send
\* channel is closed or because a write failed (at any time: the peer is
\* gone, or the connection was closed under it); its defer closes the
\* connection, which makes ReadPump's read fail.
WritePumpReturns(c) ==
    /\ ~panicked
    /\ c \in (clients \cup sendClosed) \ writeStopped
    /\ writeStopped' = writeStopped \cup {c}
    /\ UNCHANGED <<clients, sendClosed, ipRooms, publicRooms, rooms, ipRoom,
                   publicRoom, send, pc, tmp, panicked, budget, wire,
                   request, running, peerVars, rtcVars, sigVars>>

\* ------------------------------------------------------- cleanupEmptyRooms
NonEmptyOnly(tbl, h) ==
    [k \in {x \in DOMAIN tbl : ~IsEmpty(h, tbl[x])} |-> tbl[k]]

\* A sweep that cleans the coded-room table only.
cleanupCodedRoomsOnly ==
    /\ ~panicked
    /\ Becomes([Hub EXCEPT !.publicRooms = NonEmptyOnly(@, Hub)])

\* hub.go 248-266: drop the empty rooms of both tables. The two tables are
\* cleaned under their own locks one after the other; no handler leaves an
\* empty room in each table, so the order does not show.
cleanupEmptyRooms ==
    /\ ~panicked
    /\ Becomes([Hub EXCEPT !.ipRooms = NonEmptyOnly(@, Hub),
                           !.publicRooms = NonEmptyOnly(@, Hub)])

\* ------------------------------------------------------------------ locks
\* A call that takes a sync.RWMutex and gives it back before it returns:
\* Hub.clientsMu, Hub.ipRoomsMu, Hub.publicRoomsMu (r is Nil), or the mu of
\* room object r.
Section(write, mu, r) ==
    << [op |-> IF write THEN "Lock" ELSE "RLock", mu |-> mu, r |-> r],
       [op |-> IF write THEN "Unlock" ELSE "RUnlock", mu |-> mu, r |-> r] >>

\* Leaving a room while it stays locked until the table entry is gone.
LeaveLocksNested(r, table, empty) ==
    << [op |-> "Lock", mu |-> "mu", r |-> r] >>
    \o (IF empty THEN Section(TRUE, table, Nil) ELSE <<>>)
    \o << [op |-> "Unlock", mu |-> "mu", r |-> r] >>

\* hub.go 84-97, 100-113, 219-231: RemoveClient, Broadcast, IsEmpty, and for
\* a room found empty the delete under the table's lock.
LeaveLocks(r, table, empty) ==
    Section(TRUE, "mu", r) \o Section(FALSE, "mu", r) \o Section(FALSE, "mu", r)
    \o (IF empty THEN Section(TRUE, table, Nil) ELSE <<>>)

\* The lock calls of the operations goroutine t can run, in program order.
\* Room object 1 is the auto-scope room and room object 2 the coded room the
\* operations meet in; whether an operation has such a room, and whether it
\* finds it empty, is left open.
Programs(t) ==
    LET Read(r) == Section(FALSE, "mu", r)
        Enter(r) == Section(TRUE, "mu", r) \o Read(r) \o Read(r)
        Leaves(r, table) ==
            {<<>>} \cup {LeaveLocks(r, table, e) : e \in BOOLEAN}
        Sweep(r, table) ==
            {<< [op |-> "Lock", mu |-> table, r |-> Nil] >> \o isEmpty
             \o << [op |-> "Unlock", mu |-> table, r |-> Nil] >> :
                isEmpty \in {<<>>, Read(r)}}
    IN  IF t = 0
        THEN \* cleanupEmptyRooms, hub.go 248-266
             {a \o b : a \in Sweep(1, "ipRoomsMu"), b \in Sweep(2, "publicRoomsMu")}
        ELSE IF t = NumClients + 1
        THEN \* Stats, hub.go 269-280
             {Section(FALSE, "clientsMu", Nil) \o Section(FALSE, "ipRoomsMu", Nil)
              \o Section(FALSE, "publicRoomsMu", Nil)}
        ELSE \* HandleWebSocket, hub.go 70-72
             {Section(TRUE, "clientsMu", Nil)}
             \* JoinIPRoom, hub.go 130-151
             \cup {Section(TRUE, "ipRoomsMu", Nil) \o Enter(1)}
             \* CreatePublicRoom, hub.go 160-173
             \cup {Section(FALSE, "publicRoomsMu", Nil) \o Section(TRUE, "mu", 2)
                   \o Section(TRUE, "publicRoomsMu", Nil)}
             \* JoinPublicRoom, hub.go 182-208
             \cup {Section(FALSE, "publicRoomsMu", Nil)}
             \cup {Section(FALSE, "publicRoomsMu", Nil) \o l \o Enter(2) :
                      l \in Leaves(2, "publicRoomsMu")}
             \* LeavePublicRoom, hub.go 214-234
             \cup (Leaves(2, "publicRoomsMu") \ {<<>>})
             \* relayToTarget, client.go 229-249: Room.RelayTo
             \cup {Read(1), Read(2), Read(1) \o Read(2)}
             \* Unregister, hub.go 82-118
             \cup {l \o m \o Section(TRUE, "clientsMu", Nil) :
                      l \in Leaves(1, "ipRoomsMu"), m \in Leaves(2, "publicRoomsMu")}

\* sync.RWMutex: whether goroutine t gets past the call it is at. Lock waits
\* until nobody holds the mutex; RLock waits while a writer holds it or has
\* called Lock; the unlocks never wait.
Acquires(t) ==
    LET i == running[t].code[running[t].at]
        Same(j) == j.mu = i.mu /\ j.r = i.r
        Count(u, op) ==
            Cardinality({k \in 1..(running[u].at - 1) :
                           Same(running[u].code[k]) /\ running[u].code[k].op = op})
        Writes(u) == Count(u, "Lock") > Count(u, "Unlock")
        Reads(u) == Count(u, "RLock") > Count(u, "RUnlock")
        Calls(u) == /\ running[u].at <= Len(running[u].code)
                    /\ Same(running[u].code[running[u].at])
                    /\ running[u].code[running[u].at].op = "Lock"
    IN  CASE i.op = "Lock" ->
               \A u \in DOMAIN running : ~Writes(u) /\ ~Reads(u)
          [] i.op = "RLock" ->
               /\ \A u \in DOMAIN running : ~Writes(u)
               /\ \A u \in DOMAIN running \ {t} : ~Calls(u)
          [] OTHER -> TRUE

\* Goroutine t makes the call it is at; after the last one the operation
\* has returned.
Step(t) ==
    /\ running[t].code # <<>>
    /\ Acquires(t)
    /\ running' = [running EXCEPT ![t] =
           IF running[t].at = Len(running[t].code)
           THEN [code |-> <<>>, at |-> 1]
           ELSE [@ EXCEPT !.at = @ + 1]]
    /\ UNCHANGED <<clients, sendClosed, ipRooms, publicRooms, rooms, ipRoom,
                   publicRoom, send, pc, tmp, panicked, budget, writeStopped,
                   wire, request, peerVars, rtcVars, sigVars>>

Next ==
    \/ \E c \in Clients : HandleWebSocket(c)
    \/ \E c \in Clients : JoinIPRoomLookup(c)
    \/ \E c \in Clients : JoinIPRoomAdd(c)
    \/ \E c \in Clients : CreatePublicRoomGenerate(c)
    \/ \E c \in Clients : CreatePublicRoomInsert(c)
    \/ \E c \in Clients, code \in Codes : JoinPublicRoomLookup(c, code)
    \/ \E c \in Clients : JoinPublicRoomAdd(c)
    \/ \E c \in Clients : handleLeaveRoom(c)
    \/ \E c \in Clients, ty \in RelayTypes, t \in Clients \cup {Nil} :
           relayToTarget(c, ty, t)
    \/ \E c \in Clients : Unregister(c)
    \/ \E c \in Clients : WritePump(c)
    \/ cleanupEmptyRooms


\* client.go 150-154 and 156-173: a message that does not decode, or one
\* whose type is no case of the switch: handleMessage returns.
handleMessageDropped(c, what) ==
    /\ Ready(c)
    /\ what \in {"undecodable", "unrecognized type"}
    /\ Becomes(Counted(Hub))

\* client.go 171-172: ping.
handlePing(c) ==
    /\ Ready(c)
    /\ Becomes(Counted(Send(Hub, c, NewPongMessage)))


\* ===================================================== the transfer peers
\* file-transfer.js on the two ends of a transfer. The awaits of the async
\* handlers are where other handlers run: an action is the code from one
\* await to the next.

\* Transfers the initiator starts in one run.
MaxTransfers == 2
\* Accept / reject clicks the recipient's user makes in one run.
MaxClicks == 2
\* file-transfer.js:17 sets CHUNK_SIZE to 64 KiB; the model's chunks are short.
ChunkSize == 2

TransferIds == 1..MaxTransfers

MSG_METADATA == 1
MSG_CHUNK == 2
MSG_COMPLETE == 3

\* The file lists a user sends: one file of two chunks, two files, and an
\* empty file followed by a short one.
FileLists == { << <<72, 105, 33>> >>,
               << <<72, 105>>, <<33>> >>,
               << <<>>, <<72>> >> }

Max(S) == CHOOSE x \in S : \A y \in S : y <= x
\* A chunk count that rounds down.
CeilRoundsDown(n, d) == n \div d
Ceil(n, d) == (n + d - 1) \div d

RECURSIVE Concat(_)
Concat(ss) == IF ss = <<>> THEN <<>> ELSE Head(ss) \o Concat(Tail(ss))

\* file.slice(offset, offset + CHUNK_SIZE)
Slice(file, offset) ==
    SubSeq(file, offset + 1, IF offset + ChunkSize < Len(file)
                             THEN offset + ChunkSize ELSE Len(file))

\* file-transfer.js 198-213: the byte counts of the slices the chunk loop
\* takes from a file of the given size, from offset on.
RECURSIVE ChunkLengths(_, _, _)
ChunkLengths(size, chunkSize, offset) ==
    IF offset < size
    THEN <<(IF offset + chunkSize < size THEN offset + chunkSize ELSE size)
           - offset>> \o ChunkLengths(size, chunkSize, offset + chunkSize)
    ELSE <<>>

\* ------------------------------------------------------------- base64
\* btoa's output as 6-bit values; Pad is the '=' that fills the last group.
Pad == 64

B64Group(b) ==
    IF Len(b) = 3
    THEN <<b[1] \div 4, (b[1] % 4) * 16 + b[2] \div 16,
           (b[2] % 16) * 4 + b[3] \div 64, b[3] % 64>>
    ELSE IF Len(b) = 2
    THEN <<b[1] \div 4, (b[1] % 4) * 16 + b[2] \div 16, (b[2] % 16) * 4, Pad>>
    ELSE <<b[1] \div 4, (b[1] % 4) * 16, Pad, Pad>>

RECURSIVE arrayBufferToBase64(_)
arrayBufferToBase64(bytes) ==
    IF bytes = <<>> THEN <<>>
    ELSE LET n == IF Len(bytes) < 3 THEN Len(bytes) ELSE 3
         IN B64Group(SubSeq(bytes, 1, n))
            \o arrayBufferToBase64(SubSeq(bytes, n + 1, Len(bytes)))

B64Ungroup(g) ==
    LET b1 == g[1] * 4 + g[2] \div 16
        b2 == (g[2] % 16) * 16 + g[3] \div 4
        b3 == (g[3] % 4) * 64 + g[4]
    IN IF g[3] = Pad THEN <<b1>>
       ELSE IF g[4] = Pad THEN <<b1, b2>>
       ELSE <<b1, b2, b3>>

RECURSIVE base64ToArrayBuffer(_)
base64ToArrayBuffer(base64) ==
    IF base64 = <<>> THEN <<>>
    ELSE B64Ungroup(SubSeq(base64, 1, 4))
         \o base64ToArrayBuffer(SubSeq(base64, 5, Len(base64)))

\* ------------------------------------------------------ frames, envelopes
FileName(tid, fileIndex) == <<tid, fileIndex>>

\* sendViaDataChannel's metadata object for file fileIndex (counted from 0).
MetadataOf(tid, files, fileIndex) ==
    [transferId |-> tid, fileIndex |-> fileIndex,
     name |-> FileName(tid, fileIndex),
     size |-> Len(files[fileIndex + 1]),
     totalChunks |-> Ceil(Len(files[fileIndex + 1]), ChunkSize)]

createMetadataMessage(metadata) == [msgType |-> MSG_METADATA, json |-> metadata]

\* setUint16 keeps the low 16 bits of the file index; setUint32 keeps the low
\* 32 bits of the chunk index, which is every bit of the numbers checked here.
createChunkMessage(fileIndex, chunkIndex, data) ==
    [msgType |-> MSG_CHUNK, fileIndex |-> fileIndex % 65536,
     chunkIndex |-> chunkIndex, data |-> data]

createCompleteMessage(tid) == [msgType |-> MSG_COMPLETE, transferId |-> tid]

\* websocket.js sendTransferRequest
TransferRequest(tid, files) ==
    [type |-> "transfer-request", transferId |-> tid,
     files |-> [i \in 1..Len(files) |->
                  [name |-> FileName(tid, i - 1), size |-> Len(files[i])]]]

\* websocket.js sendTransferResponse
TransferResponse(tid, accepted) ==
    [type |-> "transfer-response", transferId |-> tid, accepted |-> accepted]

\* The relay-chunk sendViaRelay sends for the chunk at offset of file fileIndex.
RelayEnvelope(tid, files, fileIndex, offset) ==
    [type |-> "relay-chunk", transferId |-> tid, fileIndex |-> fileIndex,
     chunkIndex |-> offset \div ChunkSize,
     data |-> arrayBufferToBase64(Slice(files[fileIndex + 1], offset)),
     isLast |-> (fileIndex = Len(files) - 1)
                /\ (offset + ChunkSize >= Len(files[fileIndex + 1]))]

\* sendViaDataChannel from file fileIndex on, up to the first await: the
\* metadata frames sent (a file of size 0 has no chunk loop) and the file
\* whose first chunk is awaited; past the last file, the complete frame.
RECURSIVE DirectEnter(_, _, _)
DirectEnter(tid, files, fileIndex) ==
    IF fileIndex >= Len(files)
    THEN [frames |-> <<createCompleteMessage(tid)>>, fileIndex |-> fileIndex]
    ELSE LET md == createMetadataMessage(MetadataOf(tid, files, fileIndex))
         IN IF Len(files[fileIndex + 1]) > 0
            THEN [frames |-> <<md>>, fileIndex |-> fileIndex]
            ELSE LET rest == DirectEnter(tid, files, fileIndex + 1)
                 IN [frames |-> <<md>> \o rest.frames,
                     fileIndex |-> rest.fileIndex]

\* sendViaRelay from file fileIndex on: the first file that has a chunk.
RECURSIVE RelayEnter(_, _)
RelayEnter(files, fileIndex) ==
    IF fileIndex >= Len(files) \/ Len(files[fileIndex + 1]) > 0
    THEN fileIndex
    ELSE RelayEnter(files, fileIndex + 1)

\* ---------------------------------------------------------- the initiator
NoTransfer == [status |-> "none", useRelay |-> FALSE, files |-> <<>>]

\* No channel created, none recorded for the peer (Nil).
NoChannel == [recorded |-> Nil, state |-> <<>>]

\* webrtc.js 241-244
hasOpenChannel ==
    channel.recorded # Nil /\ channel.state[channel.recorded] = "open"

\* Frames as they travel: with the channel they were sent on.
OnChannel(id, frames) ==
    [i \in 1..Len(frames) |-> [chan |-> id, frame |-> frames[i]]]
\* The frames of a queue, without their channels.
Frames(q) == [i \in 1..Len(q) |-> q[i].frame]

\* A handleTransferResponse call that starts now.
NewLoop == IF DOMAIN loops = {} THEN 1 ELSE Max(DOMAIN loops) + 1


\* webrtc.js 43-81: the connection held for the peer, made if there is none.
createConnection ==
    IF connection # Nil
    THEN [sessions |-> sessions, connection |-> connection]
    ELSE [sessions |-> Append(sessions, [remote |-> FALSE, offers |-> 0, inbound |-> 0]),
          connection |-> Len(sessions) + 1]

\* webrtc.js 127-130 and 117: connect creates a data channel and
\* setupDataChannel records it for the peer.
createDataChannel ==
    [recorded |-> Len(channel.state) + 1,
     state |-> Append(channel.state, "new")]

\* webrtc.js 136-139: the offer of a connect call goes out.
OfferOut(chan) ==
    /\ channel' = [channel EXCEPT !.state[chan] =
                      IF @ = "new" THEN "connecting" ELSE @]
    /\ sessions' = [sessions EXCEPT ![connection].offers = @ + 1]

RtcStart ==
    /\ sessions = <<>>
    /\ connection = Nil
    /\ pendingCandidates = <<>>
    /\ applied = <<>>
    /\ queued = {}
    /\ calls = <<>>
    /\ arrivals = 0

rtcRest == <<pendingCandidates, applied, queued, calls, arrivals>>

\* The delays are whole numbers of this fraction of a millisecond, which
\* holds every value 1000 * 1.5^n below the cap exactly.
UnitsPerMs == 32

\* websocket.js 61: the delay after one more reconnect was scheduled.
BackoffUncapped(delay) == (delay * 3) \div 2
Backoff(delay) == Min({(delay * 3) \div 2, 30000 * UnitsPerMs})

\* websocket.js 11: maxReconnectAttempts as the constructor sets it.
MaxReconnectAttempts == 10

SigStart ==
    /\ sockets = <<>>
    /\ isConnected = FALSE
    /\ reconnectAttempts = 0
    /\ maxReconnectAttempts = MaxReconnectAttempts
    /\ messageQueue = <<>>
    /\ timers = [reconnect |-> 0, owner |-> 0]
    /\ transmitted = <<>>
    /\ handed = 0
    /\ stopped = FALSE
    /\ streak = 0
    /\ reconnectDelay = 1000 * UnitsPerMs
    /\ waits = <<>>
    /\ joins = {}

\* A call whose awaited promise has settled and whose continuation has not
\* run yet: it runs before any other event is handled.
Resolved == {a \in DOMAIN loops : loops[a].pc = "resolved"}
NoMicrotask == Resolved = {}

PeerStart ==
    /\ transfer = [t \in TransferIds |-> NoTransfer]
    /\ outgoingTransfers = {}
    /\ loops = <<>>
    /\ incomingTransfers = <<>>
    /\ wsToRecipient = <<>>
    /\ wsToInitiator = <<>>
    /\ channel = NoChannel
    /\ dc = <<>>
    /\ sink = <<>>
    /\ responses = [t \in TransferIds |-> <<>>]
    /\ sentDirect = {}
    /\ sentRelay = {}
    /\ streams = [t \in TransferIds |-> 0]
    /\ completedDirect = {}
    /\ completedRelay = {}
    /\ clicks = MaxClicks

\* file-transfer.js 64-90: sendFiles. generateTransferId gives a fresh id.
sendFiles(files) ==
    /\ NoMicrotask
    /\ \E t \in TransferIds : transfer[t].status = "none"
    /\ LET tid == Min({t \in TransferIds : transfer[t].status = "none"})
       IN /\ transfer' = [transfer EXCEPT ![tid] =
                 [status |-> "pending", useRelay |-> FALSE, files |-> files]]
          /\ outgoingTransfers' = outgoingTransfers \cup {tid}
          /\ wsToRecipient' = Append(wsToRecipient, TransferRequest(tid, files))
    /\ UNCHANGED <<hubVars, rtcVars, sigVars, loops, incomingTransfers, wsToInitiator, channel,
                   dc, sink, responses, sentDirect, sentRelay, streams,
                   completedDirect, completedRelay, clicks>>

\* file-transfer.js 174-238, entered by call a with the recorded channel
\* open: the call keeps the channel object it found, then 'transferring', the
\* metadata of
\* the first file and the await of its first chunk; with nothing to await,
\* the complete frame and 'completed'.
sendViaDataChannel(a, tid) ==
    LET files == transfer[tid].files
        run == DirectEnter(tid, files, 0)
        done == run.fileIndex >= Len(files)
    IN /\ transfer' = [transfer EXCEPT ![tid].status =
                          IF done THEN "completed" ELSE "transferring"]
       /\ outgoingTransfers' =
            IF done THEN outgoingTransfers \ {tid} ELSE outgoingTransfers
       /\ dc' = dc \o OnChannel(channel.recorded, run.frames)
       /\ loops' = IF done THEN Delete(loops, a)
                   ELSE Put(loops, a, [tid |-> tid, pc |-> "direct",
                                       chan |-> channel.recorded,
                                       fileIndex |-> run.fileIndex, offset |-> 0])
       /\ sentDirect' = sentDirect \cup {tid}
       /\ streams' = [streams EXCEPT ![tid] = @ + 1]
       /\ UNCHANGED <<wsToRecipient, sentRelay>>

\* file-transfer.js 124-128 and 243-296, entered by call a from the catch:
\* useRelay, 'transferring', then the await of the first chunk.
sendViaRelay(a, tid) ==
    LET files == transfer[tid].files
        first == RelayEnter(files, 0)
        done == first >= Len(files)
    IN /\ transfer' = [transfer EXCEPT
                          ![tid].useRelay = TRUE,
                          ![tid].status = IF done THEN "completed"
                                          ELSE "transferring"]
       /\ outgoingTransfers' =
            IF done THEN outgoingTransfers \ {tid} ELSE outgoingTransfers
       /\ loops' = IF done THEN Delete(loops, a)
                   ELSE Put(loops, a, [tid |-> tid, pc |-> "relay",
                                       chan |-> Nil,
                                       fileIndex |-> first, offset |-> 0])
       /\ streams' = [streams EXCEPT ![tid] = @ + 1]
       /\ UNCHANGED <<wsToRecipient, dc, sentDirect, sentRelay>>

\* file-transfer.js 95-129 up to its first await: the transfer-response at
\* the head of the initiator's signaling path. With no open channel recorded,
\* webrtcManager.connect (webrtc.js 123-133) creates a data channel on the
\* peer's connection, records it for the peer and awaits the offer.
handleTransferResponse ==
    /\ NoMicrotask
    /\ wsToInitiator # <<>>
    /\ Head(wsToInitiator).type = "transfer-response"
    /\ wsToInitiator' = Tail(wsToInitiator)
    /\ LET msg == Head(wsToInitiator)
           tid == msg.transferId
       IN IF tid \notin outgoingTransfers
          THEN UNCHANGED <<transfer, outgoingTransfers, loops, dc, channel,
                           wsToRecipient, sentDirect, sentRelay, streams,
                           sessions, connection>>
          ELSE IF ~msg.accepted
          THEN /\ transfer' = [transfer EXCEPT ![tid].status = "rejected"]
               /\ outgoingTransfers' = outgoingTransfers \ {tid}
               /\ UNCHANGED <<loops, dc, channel, wsToRecipient, sentDirect,
                              sentRelay, streams, sessions, connection>>
          ELSE IF hasOpenChannel
          THEN /\ sendViaDataChannel(NewLoop, tid)
               /\ UNCHANGED <<channel, sessions, connection>>
          ELSE /\ transfer' = [transfer EXCEPT ![tid].status = "accepted"]
               /\ sessions' = createConnection.sessions
               /\ connection' = createConnection.connection
               /\ loops' = Put(loops, NewLoop,
                               [tid |-> tid, pc |-> "connect",
                                chan |-> Len(channel.state) + 1,
                                fileIndex |-> 0, offset |-> 0])
               /\ channel' = createDataChannel
               /\ UNCHANGED <<outgoingTransfers, dc, wsToRecipient, sentDirect,
                              sentRelay, streams>>
    /\ UNCHANGED <<hubVars, rtcRest, sigVars, incomingTransfers, sink,
                   responses, completedDirect, completedRelay, clicks>>

\* webrtc.js 133-141 and file-transfer.js 119, 134-169: connect has sent the
\* offer for the channel it created (the connection runs the connect calls
\* in the order they were made) and waitForDataChannel is called. With the
\* recorded channel open it resolves at once and sendViaDataChannel starts;
\* else the call waits for datachannel-open, connection-failed or the timer.
ConnectDone(a) ==
    /\ NoMicrotask
    /\ a \in DOMAIN loops
    /\ loops[a].pc = "connect"
    /\ \A b \in DOMAIN loops : loops[b].pc = "connect" => a <= b
    /\ OfferOut(loops[a].chan)
    /\ UNCHANGED connection
    /\ IF hasOpenChannel
       THEN sendViaDataChannel(a, loops[a].tid)
       ELSE /\ loops' = [loops EXCEPT ![a].pc = "wait"]
            /\ UNCHANGED <<transfer, outgoingTransfers, dc, wsToRecipient,
                           sentDirect, sentRelay, streams>>
    /\ UNCHANGED <<hubVars, rtcRest, sigVars, incomingTransfers,
                   wsToInitiator, sink, responses, completedDirect,
                   completedRelay, clicks>>

\* webrtc.js 89-94 and file-transfer.js 146-151: a data channel whose offer
\* is out opens and datachannel-open is dispatched for the peer: every
\* waitForDataChannel of the peer resolves.
ChannelOpen(id) ==
    /\ NoMicrotask
    /\ id \in DOMAIN channel.state
    /\ channel.state[id] = "connecting"
    /\ channel' = [channel EXCEPT !.state[id] = "open"]
    /\ loops' = [a \in DOMAIN loops |->
                   IF loops[a].pc = "wait"
                   THEN [loops[a] EXCEPT !.pc = "resolved"] ELSE loops[a]]
    /\ UNCHANGED <<hubVars, rtcVars, sigVars, transfer, outgoingTransfers,
                   incomingTransfers, wsToRecipient, wsToInitiator, dc, sink,
                   responses, sentDirect, sentRelay, streams, completedDirect,
                   completedRelay, clicks>>

\* webrtc.js 96-102: a data channel closes; what was in flight on it is lost,
\* and the handler deletes the channel recorded for the peer.
ChannelClose(id) ==
    /\ NoMicrotask
    /\ id \in DOMAIN channel.state
    /\ channel.state[id] = "open"
    /\ channel' = [recorded |-> Nil,
                   state |-> [channel.state EXCEPT ![id] = "closed"]]
    /\ dc' = SelectSeq(dc, LAMBDA m : m.chan # id)
    /\ UNCHANGED <<hubVars, rtcVars, sigVars, transfer, outgoingTransfers, loops,
                   incomingTransfers, wsToRecipient, wsToInitiator, sink,
                   responses, sentDirect, sentRelay, streams, completedDirect,
                   completedRelay, clicks>>

\* file-transfer.js 119-128, 174-178: the continuation of a
\* waitForDataChannel that resolved, the earliest call first.
\* sendViaDataChannel looks at the channel recorded for the peer: with that
\* one open the send starts, else it throws and the catch starts the relay.
WaitResolved(a) ==
    /\ a \in Resolved
    /\ \A b \in Resolved : a <= b
    /\ IF hasOpenChannel
       THEN sendViaDataChannel(a, loops[a].tid)
       ELSE sendViaRelay(a, loops[a].tid)
    /\ UNCHANGED <<hubVars, rtcVars, sigVars, incomingTransfers, wsToInitiator, channel, sink,
                   responses, completedDirect, completedRelay, clicks>>

\* file-transfer.js 141-144, 153-158 and 124-128: the timer of
\* waitForDataChannel fires after 10 s, or connection-failed is dispatched
\* for the peer: the wait rejects and the catch starts the relay.
WaitFailed(a) ==
    /\ NoMicrotask
    /\ a \in DOMAIN loops
    /\ loops[a].pc = "wait"
    /\ sendViaRelay(a, loops[a].tid)
    /\ UNCHANGED <<hubVars, rtcVars, sigVars, incomingTransfers, wsToInitiator, channel, sink,
                   responses, completedDirect, completedRelay, clicks>>

\* file-transfer.js 201-237, call a back from `await chunk.arrayBuffer()`:
\* channel.send of the chunk throws on a channel that has closed and the
\* catch at 124-128 starts the relay; else the chunk goes out and the code
\* runs to the next await: the next chunk, or the first chunk of a later
\* file after its metadata, or past the complete frame to 'completed'.
DirectStep(a) ==
    /\ NoMicrotask
    /\ a \in DOMAIN loops
    /\ loops[a].pc = "direct"
    /\ LET l == loops[a]
           tid == l.tid
           files == transfer[tid].files
           file == files[l.fileIndex + 1]
           chunk == createChunkMessage(l.fileIndex, l.offset \div ChunkSize,
                                       Slice(file, l.offset))
           offset == l.offset + ChunkSize
           run == DirectEnter(tid, files, l.fileIndex + 1)
           done == run.fileIndex >= Len(files)
       IN IF channel.state[l.chan] # "open"
          THEN sendViaRelay(a, tid)
          ELSE IF offset < Len(file)
          THEN /\ dc' = dc \o OnChannel(l.chan, <<chunk>>)
               /\ loops' = [loops EXCEPT ![a].offset = offset]
               /\ UNCHANGED <<transfer, outgoingTransfers, wsToRecipient,
                              sentDirect, sentRelay, streams>>
          ELSE /\ dc' = dc \o OnChannel(l.chan, <<chunk>> \o run.frames)
               /\ transfer' = [transfer EXCEPT ![tid].status =
                                  IF done THEN "completed" ELSE @]
               /\ outgoingTransfers' =
                    IF done THEN outgoingTransfers \ {tid} ELSE outgoingTransfers
               /\ loops' = IF done THEN Delete(loops, a)
                           ELSE [loops EXCEPT ![a].fileIndex = run.fileIndex,
                                              ![a].offset = 0]
               /\ UNCHANGED <<wsToRecipient, sentDirect, sentRelay, streams>>
    /\ UNCHANGED <<hubVars, rtcVars, sigVars, incomingTransfers, wsToInitiator, channel, sink,
                   responses, completedDirect, completedRelay, clicks>>

\* file-transfer.js 254-295, call a back from an await of the relay loop: the
\* relay-chunk of the next chunk goes out; after the sleep that follows the
\* last one, 'completed'.
RelayStep(a) ==
    /\ NoMicrotask
    /\ a \in DOMAIN loops
    /\ loops[a].pc = "relay"
    /\ LET l == loops[a]
           tid == l.tid
           files == transfer[tid].files
           offset == l.offset + ChunkSize
       IN IF l.fileIndex >= Len(files)
          THEN /\ transfer' = [transfer EXCEPT ![tid].status = "completed"]
               /\ outgoingTransfers' = outgoingTransfers \ {tid}
               /\ loops' = Delete(loops, a)
               /\ UNCHANGED <<wsToRecipient, sentRelay>>
          ELSE /\ wsToRecipient' =
                    Append(wsToRecipient,
                           RelayEnvelope(tid, files, l.fileIndex, l.offset))
               /\ sentRelay' = sentRelay \cup {tid}
               /\ loops' = IF offset < Len(files[l.fileIndex + 1])
                           THEN [loops EXCEPT ![a].offset = offset]
                           ELSE [loops EXCEPT
                                   ![a].fileIndex = RelayEnter(files, l.fileIndex + 1),
                                   ![a].offset = 0]
               /\ UNCHANGED <<transfer, outgoingTransfers>>
    /\ UNCHANGED <<hubVars, rtcVars, sigVars, incomingTransfers, wsToInitiator, channel, dc, sink,
                   responses, sentDirect, streams, completedDirect,
                   completedRelay, clicks>>

\* ---------------------------------------------------------- the recipient
\* file-transfer.js 302-312. The byte counters kept for the progress events
\* are left out.
NewIncoming(msg) ==
    [id |-> msg.transferId, files |-> msg.files, status |-> "pending",
     currentFileData |-> <<>>, currentFileMetadata |-> <<>>,
     currentFileIndex |-> 0, fileChunks |-> <<>>]

\* file-transfer.js 301-324
handleTransferRequest ==
    /\ wsToRecipient # <<>>
    /\ Head(wsToRecipient).type = "transfer-request"
    /\ wsToRecipient' = Tail(wsToRecipient)
    /\ incomingTransfers' = Put(incomingTransfers,
                                Head(wsToRecipient).transferId,
                                NewIncoming(Head(wsToRecipient)))
    /\ UNCHANGED <<hubVars, rtcVars, sigVars, transfer, outgoingTransfers, loops, wsToInitiator,
                   channel, dc, sink, responses, sentDirect, sentRelay,
                   streams, completedDirect, completedRelay, clicks>>

\* A transfer the recipient's user has been asked about.
Shown(tid) == tid \in DOMAIN incomingTransfers \/ responses[tid] # <<>>

\* file-transfer.js 329-339
acceptTransfer(tid) ==
    /\ clicks > 0
    /\ Shown(tid)
    /\ clicks' = clicks - 1
    /\ IF tid \in DOMAIN incomingTransfers
       THEN /\ incomingTransfers' =
                 [incomingTransfers EXCEPT ![tid].status = "accepted"]
            /\ wsToInitiator' = Append(wsToInitiator, TransferResponse(tid, TRUE))
            /\ responses' = [responses EXCEPT ![tid] = Append(@, TRUE)]
       ELSE UNCHANGED <<incomingTransfers, wsToInitiator, responses>>
    /\ UNCHANGED <<hubVars, rtcVars, sigVars, transfer, outgoingTransfers, loops, wsToRecipient,
                   channel, dc, sink, sentDirect, sentRelay, streams,
                   completedDirect, completedRelay>>

\* A rejectTransfer that keeps the transfer in the map.
rejectTransferKeepsRecord(tid) ==
    /\ clicks > 0
    /\ Shown(tid)
    /\ clicks' = clicks - 1
    /\ IF tid \in DOMAIN incomingTransfers
       THEN /\ incomingTransfers' =
                 [incomingTransfers EXCEPT ![tid].status = "rejected"]
            /\ wsToInitiator' = Append(wsToInitiator, TransferResponse(tid, FALSE))
            /\ responses' = [responses EXCEPT ![tid] = Append(@, FALSE)]
       ELSE UNCHANGED <<incomingTransfers, wsToInitiator, responses>>
    /\ UNCHANGED <<hubVars, rtcVars, sigVars, transfer, outgoingTransfers, loops, wsToRecipient,
                   channel, dc, sink, sentDirect, sentRelay, streams,
                   completedDirect, completedRelay>>

\* file-transfer.js 344-355
rejectTransfer(tid) ==
    /\ clicks > 0
    /\ Shown(tid)
    /\ clicks' = clicks - 1
    /\ IF tid \in DOMAIN incomingTransfers
       THEN /\ incomingTransfers' = Delete(incomingTransfers, tid)
            /\ wsToInitiator' = Append(wsToInitiator, TransferResponse(tid, FALSE))
            /\ responses' = [responses EXCEPT ![tid] = Append(@, FALSE)]
       ELSE UNCHANGED <<incomingTransfers, wsToInitiator, responses>>
    /\ UNCHANGED <<hubVars, rtcVars, sigVars, transfer, outgoingTransfers, loops, wsToRecipient,
                   channel, dc, sink, sentDirect, sentRelay, streams,
                   completedDirect, completedRelay>>

\* file-transfer.js 552-559: the first transfer of the map, which keeps
\* insertion order, that is not 'completed'; Nil if there is none. Requests
\* arrive in the order of their ids.
findTransferByPeer ==
    LET live == {t \in DOMAIN incomingTransfers :
                    incomingTransfers[t].status # "completed"}
    IN IF live = {} THEN Nil ELSE Min(live)

\* file-transfer.js 421-429
handleMetadata(metadata) ==
    LET t == findTransferByPeer
    IN /\ incomingTransfers' =
            IF t = Nil THEN incomingTransfers
            ELSE [incomingTransfers EXCEPT
                    ![t].currentFileIndex = metadata.fileIndex,
                    ![t].currentFileData = <<>>,
                    ![t].currentFileMetadata = <<metadata>>,
                    ![t].status = "transferring"]
       /\ UNCHANGED <<sink, completedDirect>>

\* file-transfer.js 434-456 and 517-532. With currentFileMetadata null the
\* expected count is 0 and saveReceivedFile throws on metadata.type: the
\* handler ends there, the chunk already pushed.
handleChunk(chunkData) ==
    LET t == findTransferByPeer
    IN IF t = Nil THEN UNCHANGED <<incomingTransfers, sink, completedDirect>>
       ELSE LET tr == incomingTransfers[t]
                data == Append(tr.currentFileData, chunkData)
                expectedChunks == IF tr.currentFileMetadata = <<>> THEN 0
                                  ELSE tr.currentFileMetadata[1].totalChunks
            IN IF Len(data) >= expectedChunks /\ tr.currentFileMetadata # <<>>
               THEN /\ sink' = Append(sink,
                               [name |-> tr.currentFileMetadata[1].name,
                                bytes |-> Concat(data)])
                    /\ incomingTransfers' =
                         [incomingTransfers EXCEPT
                            ![t].currentFileData = <<>>,
                            ![t].currentFileMetadata = <<>>]
                    /\ UNCHANGED completedDirect
               ELSE /\ incomingTransfers' =
                         [incomingTransfers EXCEPT ![t].currentFileData = data]
                    /\ UNCHANGED <<sink, completedDirect>>

\* file-transfer.js 537-547
handleComplete(tid) ==
    IF tid \in DOMAIN incomingTransfers
    THEN /\ incomingTransfers' = Delete(incomingTransfers, tid)
         /\ completedDirect' = completedDirect \cup {tid}
         /\ UNCHANGED sink
    ELSE UNCHANGED <<incomingTransfers, sink, completedDirect>>

\* file-transfer.js 392-416: the frame at the head of the data channel.
handleBinaryMessage ==
    /\ dc # <<>>
    /\ dc' = Tail(dc)
    /\ LET data == Head(dc).frame
       IN IF data.msgType = MSG_METADATA THEN handleMetadata(data.json)
          ELSE IF data.msgType = MSG_CHUNK THEN handleChunk(data.data)
          ELSE handleComplete(data.transferId)
    /\ UNCHANGED <<hubVars, rtcVars, sigVars, transfer, outgoingTransfers, loops, wsToRecipient,
                   wsToInitiator, channel, responses, sentDirect, sentRelay,
                   streams, completedRelay, clicks>>

\* The bytes of the string "undefined": what the Blob constructor makes of a
\* hole of a sparse array.
HoleBytes == <<117, 110, 100, 101, 102, 105, 110, 101, 100>>

\* A JavaScript array as a function on the indexes that were assigned.
ArrayLength(arr) == IF DOMAIN arr = {} THEN 0 ELSE Max(DOMAIN arr) + 1

\* new Blob(chunks): the parts from index i up to the array's length.
RECURSIVE BlobFrom(_, _)
BlobFrom(chunks, i) ==
    IF i >= ArrayLength(chunks) THEN <<>>
    ELSE (IF i \in DOMAIN chunks THEN chunks[i] ELSE HoleBytes)
         \o BlobFrom(chunks, i + 1)

\* file-transfer.js 498-504: one download per file of the request, from
\* fileChunks[i] || [].
RelayedFiles(files, fileChunks) ==
    [i \in 1..Len(files) |->
        [name |-> files[i].name,
         bytes |-> IF (i - 1) \in DOMAIN fileChunks
                   THEN BlobFrom(fileChunks[i - 1], 0) ELSE <<>>]]

\* file-transfer.js 461-493 and 498-512: the relay-chunk at the head of the
\* recipient's signaling path.
handleRelayChunk ==
    /\ wsToRecipient # <<>>
    /\ Head(wsToRecipient).type = "relay-chunk"
    /\ wsToRecipient' = Tail(wsToRecipient)
    /\ LET payload == Head(wsToRecipient)
           tid == payload.transferId
       IN IF tid \notin DOMAIN incomingTransfers
          THEN UNCHANGED <<incomingTransfers, sink, completedRelay>>
          ELSE LET tr == incomingTransfers[tid]
                   chunkData == base64ToArrayBuffer(payload.data)
                   ofFile == IF payload.fileIndex \in DOMAIN tr.fileChunks
                             THEN tr.fileChunks[payload.fileIndex] ELSE <<>>
                   fileChunks == Put(tr.fileChunks, payload.fileIndex,
                                     Put(ofFile, payload.chunkIndex, chunkData))
               IN IF payload.isLast
                  THEN /\ sink' = sink \o RelayedFiles(tr.files, fileChunks)
                       /\ incomingTransfers' = Delete(incomingTransfers, tid)
                       /\ completedRelay' = completedRelay \cup {tid}
                  ELSE /\ incomingTransfers' =
                            [incomingTransfers EXCEPT
                               ![tid].fileChunks = fileChunks,
                               ![tid].status = "transferring"]
                       /\ UNCHANGED <<sink, completedRelay>>
    /\ UNCHANGED <<hubVars, rtcVars, sigVars, transfer, outgoingTransfers, loops, wsToInitiator,
                   channel, dc, responses, sentDirect, sentRelay, streams,
                   completedDirect, clicks>>

\* ------------------------------------------------ the WebRTCManager alone
\* connect calls made in one run, and signaling messages received in one.
MaxConnects == 2
MaxArrivals == 4

NewCall == IF DOMAIN calls = {} THEN 1 ELSE Max(DOMAIN calls) + 1

\* The call whose createOffer or setRemoteDescription the connection
\* settles next: it runs them in the order they were asked for.
First(k) ==
    /\ k \in DOMAIN calls
    /\ calls[k].stage \in {"offer", "setRemote"}
    /\ \A j \in DOMAIN calls :
          calls[j].stage \in {"offer", "setRemote"} => k <= j

\* webrtc.js 123-133: connect(peerId) up to `await pc.createOffer()`.
connect ==
    /\ Len(channel.state) < MaxConnects
    /\ sessions' = createConnection.sessions
    /\ connection' = createConnection.connection
    /\ channel' = createDataChannel
    /\ calls' = Put(calls, NewCall,
                    [kind |-> "connect", stage |-> "offer",
                     chan |-> Len(channel.state) + 1, i |-> 0, queue |-> <<>>])
    /\ UNCHANGED <<hubVars, transferVars, sigVars, pendingCandidates,
                   applied, queued, arrivals>>

\* webrtc.js 133-141: the offer is made and sent.
OfferSent(k) ==
    /\ First(k)
    /\ calls[k].kind = "connect"
    /\ OfferOut(calls[k].chan)
    /\ calls' = Delete(calls, k)
    /\ UNCHANGED <<hubVars, transferVars, sigVars, connection,
                   pendingCandidates, applied, queued, arrivals>>

\* webrtc.js 147-155: an offer arrives; handleOffer up to
\* `await pc.setRemoteDescription(...)`.
handleOffer ==
    /\ arrivals < MaxArrivals
    /\ arrivals' = arrivals + 1
    /\ sessions' = createConnection.sessions
    /\ connection' = createConnection.connection
    /\ calls' = Put(calls, NewCall,
                    [kind |-> "offer", stage |-> "setRemote", chan |-> Nil,
                     i |-> 0, queue |-> <<>>])
    /\ UNCHANGED <<hubVars, peerVars, sigVars, pendingCandidates, applied,
                   queued>>

\* Answers on their way in or being applied.
AnswersDue == Cardinality({k \in DOMAIN calls : calls[k].kind = "answer"
                                                /\ calls[k].stage = "setRemote"})

\* webrtc.js 180-192: an answer to an offer of ours arrives; handleAnswer up
\* to `await pc.setRemoteDescription(...)`.
handleAnswer ==
    /\ arrivals < MaxArrivals
    /\ connection # Nil
    /\ sessions[connection].offers > AnswersDue
    /\ arrivals' = arrivals + 1
    /\ calls' = Put(calls, NewCall,
                    [kind |-> "answer", stage |-> "setRemote", chan |-> Nil,
                     i |-> 0, queue |-> <<>>])
    /\ UNCHANGED <<hubVars, peerVars, sigVars, sessions, connection,
                   pendingCandidates, applied, queued>>

\* An addIceCandidate call: the candidate, and whether the connection had a
\* remote description when the call was made.
Applying(candidate, described) ==
    [candidate |-> candidate, described |-> described]

\* webrtc.js 152-163 and 189-200: setRemoteDescription has settled. An offer
\* that meets an offer of ours is refused or rolls ours back, as the browser
\* has it; a refusal ends the handler. Else the description is applied and
\* the loop over the queued candidates starts, up to its first await.
DescriptionApplied(k) ==
    /\ First(k)
    /\ calls[k].kind \in {"offer", "answer"}
    /\ \E ok \in IF calls[k].kind = "offer" /\ sessions[connection].offers > 0
                  THEN BOOLEAN ELSE {TRUE} :
        IF ~ok
        THEN /\ calls' = Delete(calls, k)
             /\ UNCHANGED <<sessions, applied>>
        ELSE /\ sessions' = [sessions EXCEPT
                   ![connection].remote = TRUE,
                   ![connection].offers =
                       IF calls[k].kind = "offer" THEN 0 ELSE @ - 1,
                   ![connection].inbound =
                       IF calls[k].kind = "offer" THEN @ + 1 ELSE @]
             /\ IF pendingCandidates # <<>>
                THEN /\ applied' = Append(applied,
                                          Applying(pendingCandidates[1], TRUE))
                     /\ calls' = [calls EXCEPT ![k].stage = "flush",
                                               ![k].i = 1,
                                               ![k].queue = pendingCandidates]
                ELSE /\ calls' = Delete(calls, k)
                     /\ UNCHANGED applied
    /\ UNCHANGED <<hubVars, peerVars, sigVars, connection, pendingCandidates,
                   queued, arrivals>>

\* webrtc.js 159-162 and 196-199: back from `await pc.addIceCandidate(...)`:
\* the next queued candidate, or past the last one the entry is deleted.
FlushStep(k) ==
    /\ k \in DOMAIN calls
    /\ calls[k].stage = "flush"
    /\ IF calls[k].i < Len(calls[k].queue)
       THEN /\ applied' = Append(applied,
                   Applying(calls[k].queue[calls[k].i + 1],
                            sessions[connection].remote))
            /\ calls' = [calls EXCEPT ![k].i = @ + 1]
            /\ UNCHANGED pendingCandidates
       ELSE /\ pendingCandidates' = <<>>
            /\ calls' = Delete(calls, k)
            /\ UNCHANGED applied
    /\ UNCHANGED <<hubVars, peerVars, sigVars, sessions, connection, queued,
                   arrivals>>

\* webrtc.js 206-229: a candidate arrives, the arrivals-th message: queued
\* while there is no connection or no remote description, else applied.
handleIceCandidate ==
    /\ arrivals < MaxArrivals
    /\ arrivals' = arrivals + 1
    /\ IF connection = Nil \/ ~sessions[connection].remote
       THEN /\ pendingCandidates' = Append(pendingCandidates, arrivals + 1)
            /\ queued' = queued \cup {arrivals + 1}
            /\ UNCHANGED applied
       ELSE /\ applied' = Append(applied,
                   Applying(arrivals + 1, sessions[connection].remote))
            /\ UNCHANGED <<pendingCandidates, queued>>
    /\ UNCHANGED <<hubVars, peerVars, sigVars, sessions, connection, calls>>

\* webrtc.js 74-77 and 117: the connection announces a data channel the peer
\* created; setupDataChannel records it for the peer.
ondatachannel ==
    /\ connection # Nil
    /\ sessions[connection].inbound > 0
    /\ sessions' = [sessions EXCEPT ![connection].inbound = @ - 1]
    /\ channel' = [recorded |-> Len(channel.state) + 1,
                   state |-> Append(channel.state, "connecting")]
    /\ UNCHANGED <<hubVars, transferVars, sigVars, connection, rtcRest>>

RtcNext ==
    \/ connect
    \/ \E k \in DOMAIN calls : OfferSent(k)
    \/ handleOffer
    \/ handleAnswer
    \/ \E k \in DOMAIN calls : DescriptionApplied(k)
    \/ \E k \in DOMAIN calls : FlushStep(k)
    \/ handleIceCandidate
    \/ ondatachannel
    \/ \E id \in DOMAIN channel.state : ChannelOpen(id)
    \/ \E id \in DOMAIN channel.state : ChannelClose(id)

\* --------------------------------------------- the WebSocketManager alone
\* WebSocket objects made in one run, and messages handed to send in one.
MaxSockets == 12
MaxSends == 2
\* The user renames the device only while fewer sockets than this were made.
RenameBefore == 3

\* this.ws.readyState; this.ws is the WebSocket made last.
readyState == IF sockets = <<>> THEN "none" ELSE sockets[Len(sockets)]

\* websocket.js 25: connect() makes a WebSocket and keeps it in this.ws.
NewWebSocket == Append(sockets, "connecting")

\* websocket.js 53: the test onclose makes before it schedules a reconnect.
MayReconnectOneMore == reconnectAttempts <= maxReconnectAttempts
MayReconnect == reconnectAttempts < maxReconnectAttempts

\* part_000 64: the page connects when it starts.
wsManagerConnect ==
    /\ sockets = <<>>
    /\ sockets' = NewWebSocket
    /\ UNCHANGED <<hubVars, peerVars, rtcVars, reconnectDelay, waits, isConnected, reconnectAttempts,
                   maxReconnectAttempts, messageQueue, timers, transmitted,
                   handed, stopped, streak, joins>>

\* websocket.js 27-43: onopen of WebSocket s. The queue is sent through
\* this.ws: a socket that is open takes the messages; one that is still
\* connecting throws on the first, after the shift, and the handler ends
\* there; one that is closing or closed drops each without a word. Then the
\* 'open' event is dispatched, and the page's listener (part_000 71-75) hands
\* the join to send().
SocketOpen(s) ==
    /\ sockets[s] = "connecting"
    /\ sockets' = [sockets EXCEPT ![s] = "open"]
    /\ isConnected' = TRUE
    /\ reconnectAttempts' = 0
    /\ streak' = 0
    /\ IF sockets'[Len(sockets)] = "open"
       THEN /\ transmitted' = transmitted \o messageQueue \o <<handed + 1>>
            /\ messageQueue' = <<>>
            /\ handed' = handed + 1
            /\ joins' = joins \cup {handed + 1}
       ELSE IF sockets'[Len(sockets)] = "connecting" /\ messageQueue # <<>>
       THEN /\ messageQueue' = Tail(messageQueue)
            /\ UNCHANGED <<transmitted, handed, joins>>
       ELSE /\ messageQueue' = <<handed + 1>>
            /\ handed' = handed + 1
            /\ joins' = joins \cup {handed + 1}
            /\ UNCHANGED transmitted
    /\ reconnectDelay' = 1000 * UnitsPerMs
    /\ waits' = <<>>
    /\ UNCHANGED <<hubVars, peerVars, rtcVars, maxReconnectAttempts, timers,
                   stopped>>

\* websocket.js 45-63: onclose of WebSocket s: the connection failed, was
\* lost, or its close has completed.
SocketClose(s) ==
    /\ sockets[s] \in {"connecting", "open", "closing"}
    /\ sockets' = [sockets EXCEPT ![s] = "closed"]
    /\ isConnected' = FALSE
    /\ IF MayReconnect
       THEN /\ timers' = [timers EXCEPT !.reconnect = @ + 1]
            /\ waits' = Append(waits, reconnectDelay)
            /\ reconnectDelay' = Backoff(reconnectDelay)
       ELSE UNCHANGED <<timers, waits, reconnectDelay>>
    /\ UNCHANGED <<hubVars, peerVars, rtcVars, reconnectAttempts,
                   maxReconnectAttempts, messageQueue, transmitted, handed,
                   stopped, streak, joins>>

\* websocket.js 54-58: the reconnect timer fires.
ReconnectTimer ==
    /\ timers.reconnect > 0
    /\ Len(sockets) < MaxSockets
    /\ timers' = [timers EXCEPT !.reconnect = @ - 1]
    /\ reconnectAttempts' = reconnectAttempts + 1
    /\ streak' = streak + 1
    /\ sockets' = NewWebSocket
    /\ UNCHANGED <<hubVars, peerVars, rtcVars, reconnectDelay, waits, isConnected,
                   maxReconnectAttempts, messageQueue, transmitted, handed,
                   stopped, joins>>

\* websocket.js 103-114: send; the messages are numbered as they are handed
\* over.
wsManagerSend ==
    /\ handed - Cardinality(joins) < MaxSends
    /\ handed' = handed + 1
    /\ IF isConnected /\ readyState = "open"
       THEN /\ transmitted' = Append(transmitted, handed + 1)
            /\ UNCHANGED messageQueue
       ELSE /\ messageQueue' = Append(messageQueue, handed + 1)
            /\ UNCHANGED transmitted
    /\ UNCHANGED <<hubVars, peerVars, rtcVars, reconnectDelay, waits, sockets, isConnected,
                   reconnectAttempts, maxReconnectAttempts, timers, stopped,
                   streak, joins>>

\* websocket.js 229-235: disconnect().
disconnect ==
    /\ maxReconnectAttempts' = 0
    /\ stopped' = TRUE
    /\ sockets' = IF readyState \in {"connecting", "open"}
                  THEN [sockets EXCEPT ![Len(sockets)] = "closing"]
                  ELSE sockets

\* part_000 480-490: the device is renamed: disconnect, and connect 100 ms
\* later.
editDeviceName ==
    /\ sockets # <<>>
    /\ Len(sockets) + timers.owner < RenameBefore
    /\ disconnect
    /\ timers' = [timers EXCEPT !.owner = @ + 1]
    /\ UNCHANGED <<hubVars, peerVars, rtcVars, reconnectDelay, waits, isConnected, reconnectAttempts,
                   messageQueue, transmitted, handed, streak, joins>>

\* part_000 488: the 100 ms are over.
RenameTimer ==
    /\ timers.owner > 0
    /\ timers' = [timers EXCEPT !.owner = @ - 1]
    /\ sockets' = NewWebSocket
    /\ UNCHANGED <<hubVars, peerVars, rtcVars, reconnectDelay, waits, isConnected, reconnectAttempts,
                   maxReconnectAttempts, messageQueue, transmitted, handed,
                   stopped, streak, joins>>

SigNext ==
    \/ wsManagerConnect
    \/ \E s \in DOMAIN sockets : SocketOpen(s)
    \/ \E s \in DOMAIN sockets : SocketClose(s)
    \/ ReconnectTimer
    \/ wsManagerSend
    \/ editDeviceName
    \/ RenameTimer

PeerNext ==
    \/ \E files \in FileLists : sendFiles(files)
    \/ handleTransferResponse
    \/ \E a \in DOMAIN loops : ConnectDone(a)
    \/ \E id \in DOMAIN channel.state : ChannelOpen(id)
    \/ \E id \in DOMAIN channel.state : ChannelClose(id)
    \/ \E a \in DOMAIN loops : WaitResolved(a)
    \/ \E a \in DOMAIN loops : WaitFailed(a)
    \/ \E a \in DOMAIN loops : DirectStep(a)
    \/ \E a \in DOMAIN loops : RelayStep(a)
    \/ handleTransferRequest
    \/ \E tid \in TransferIds : acceptTransfer(tid)
    \/ \E tid \in TransferIds : rejectTransfer(tid)
    \/ handleBinaryMessage
    \/ handleRelayChunk

\* ------------------------------------------------- relay arrival orders
\* The file lists of the relayed transfers whose arrival order is drawn.
RelayFileLists ==
    FileLists \cup { << <<72, 105, 33, 0, 255>> >>,
                     << <<72, 105>>, <<>>, <<33, 0, 255>> >>,
                     << <<72, 105, 33>>, <<1, 2, 255>> >> }

\* Every relay-chunk sendViaRelay sends for the files.
RelayEnvelopes(tid, files) ==
    { RelayEnvelope(tid, files, p[1], p[2]) :
        p \in { q \in (0..(Len(files) - 1)) \X (0..5) :
                  q[2] < Len(files[q[1] + 1]) /\ q[2] % ChunkSize = 0 } }

ArrivalOrders(S) ==
    { f \in [1..Cardinality(S) -> S] :
        \A i, j \in 1..Cardinality(S) : f[i] = f[j] => i = j }

\* The recipient has accepted transfer 1, the initiator has relayed all of it,
\* and the relay-chunks reach the recipient in some order.
RelayStart ==
    \E files \in RelayFileLists :
    \E order \in ArrivalOrders(RelayEnvelopes(1, files)) :
        /\ transfer = [t \in TransferIds |->
                         IF t = 1 THEN [status |-> "completed", useRelay |-> TRUE,
                                        files |-> files]
                         ELSE NoTransfer]
        /\ outgoingTransfers = {}
        /\ loops = <<>>
        /\ incomingTransfers =
             (1 :> [NewIncoming(TransferRequest(1, files))
                       EXCEPT !.status = "accepted"])
        /\ wsToRecipient = order
        /\ wsToInitiator = <<>>
        /\ channel = NoChannel
        /\ dc = <<>>
        /\ sink = <<>>
        /\ responses = [t \in TransferIds |-> IF t = 1 THEN <<TRUE>> ELSE <<>>]
        /\ sentDirect = {}
        /\ sentRelay = {1}
        /\ streams = [t \in TransferIds |-> IF t = 1 THEN 1 ELSE 0]
        /\ completedDirect = {}
        /\ completedRelay = {}
        /\ clicks = MaxClicks - 1


\* ------------------------------------------------- one accepted transfer
\* The file lists of the transfers whose sending is followed frame by frame:
\* a file of three full chunks and a rest, a file of full chunks only, empty
\* files first, last and alone, and several files.
SendFileLists ==
    FileLists \cup { << <<1, 2, 3, 4, 5, 6, 7>> >>,
                     << <<72, 105, 33, 0>> >>,
                     << <<72>>, <<>> >>,
                     << <<>> >>,
                     << <<1>>, <<2, 3, 4>>, <<5, 6>> >> }

\* The initiator has sent transfer 1, the recipient's user has accepted it
\* once and clicks no more; the transfer-response is on its way.
SendStart ==
    \E files \in SendFileLists :
        /\ transfer = [t \in TransferIds |->
                         IF t = 1 THEN [status |-> "pending", useRelay |-> FALSE,
                                        files |-> files]
                         ELSE NoTransfer]
        /\ outgoingTransfers = {1}
        /\ loops = <<>>
        /\ incomingTransfers =
             (1 :> [NewIncoming(TransferRequest(1, files))
                       EXCEPT !.status = "accepted"])
        /\ wsToRecipient = <<>>
        /\ wsToInitiator = <<TransferResponse(1, TRUE)>>
        /\ channel = NoChannel
        /\ dc = <<>>
        /\ sink = <<>>
        /\ responses = [t \in TransferIds |-> IF t = 1 THEN <<TRUE>> ELSE <<>>]
        /\ sentDirect = {}
        /\ sentRelay = {}
        /\ streams = [t \in TransferIds |-> 0]
        /\ completedDirect = {}
        /\ completedRelay = {}
        /\ clicks = 0

\* The initiator's side of the transfer and the recipient's relay handler; the
\* data channel, once open, stays open and keeps the frames sent on it.
SendNext ==
    \/ handleTransferResponse
    \/ \E a \in DOMAIN loops : ConnectDone(a)
    \/ \E id \in DOMAIN channel.state : ChannelOpen(id)
    \/ \E a \in DOMAIN loops : WaitResolved(a)
    \/ \E a \in DOMAIN loops : WaitFailed(a)
    \/ \E a \in DOMAIN loops : DirectStep(a)
    \/ \E a \in DOMAIN loops : RelayStep(a)
    \/ handleRelayChunk

\* ------------------------------------------------------ specifications
\* The state after construction: the hub, the peers (as the page, a relayed
\* transfer or an accepted one has them), their connections and the socket.
Started(ops, requests, traced, peers) ==
    HubInit(ops, requests, traced) /\ peers /\ RtcStart /\ SigStart

Init == Started(MaxOps, {SameSubnet}, {}, PeerStart)
Spec == Init /\ [][Next]_vars

\* The two peers of a transfer, the hub at rest.
PeerInit == Started(0, {SameSubnet}, {}, PeerStart)
SpecPeer == PeerInit /\ [][PeerNext]_vars

\* The recipient under every arrival order of a relayed transfer.
SpecRelay ==
    /\ Started(0, {SameSubnet}, {}, RelayStart)
    /\ [][handleRelayChunk]_vars

\* One transfer accepted once, sent on a channel that stays open or relayed.
SpecSend ==
    /\ Started(0, {SameSubnet}, {}, SendStart)
    /\ [][SendNext]_vars

\* One accepted transfer on which no message is lost, with what the event
\* loops of the two pages guarantee: a handler that can run does run.
SpecAgree ==
    /\ Started(0, {SameSubnet}, {}, SendStart)
    /\ [][SendNext \/ handleBinaryMessage]_vars
    /\ WF_vars(SendNext \/ handleBinaryMessage)

\* The hub with clients that join their auto-scope room and send envelopes
\* for relay, pings and messages it cannot use.
SpecInbound ==
    /\ Init
    /\ [][
         \/ \E c \in Clients : HandleWebSocket(c)
         \/ \E c \in Clients : JoinIPRoomLookup(c)
         \/ \E c \in Clients : JoinIPRoomAdd(c)
         \/ \E c \in Clients, msg \in Inbound : relayInbound(c, msg)
         \/ \E c \in Clients, what \in {"undecodable", "unrecognized type"} :
             handleMessageDropped(c, what)
         \/ \E c \in Clients : handlePing(c)
         \/ \E c \in Clients : WritePump(c)]_vars

\* The joins of clients that connect from anywhere, through proxies or not.
SpecAddr ==
    /\ Started(LiveOps, Requests, {}, PeerStart)
    /\ [][\E c \in Clients :
             HandleWebSocket(c) \/ JoinIPRoomLookup(c) \/ JoinIPRoomAdd(c)]_vars

\* Sessions that join their auto-scope room and then create, join and leave
\* coded rooms.
SpecRooms ==
    /\ Started(RoomOps, {SameSubnet}, {}, PeerStart)
    /\ [][\/ \E c \in Clients : HandleWebSocket(c)
          \/ \E c \in Clients : JoinIPRoomLookup(c)
          \/ \E c \in Clients : JoinIPRoomAdd(c)
          \/ \E c \in Clients : CreatePublicRoomGenerate(c)
          \/ \E c \in Clients : CreatePublicRoomInsert(c)
          \/ \E c \in Clients, code \in Codes : JoinPublicRoomLookup(c, code)
          \/ \E c \in Clients : JoinPublicRoomAdd(c)
          \/ \E c \in Clients : handleLeaveRoom(c)
          \/ \E c \in Clients : WritePump(c)]_vars

\* The goroutines of the hub as far as locks go: each starts operations, one
\* after the other, and the scheduler and the mutexes let none of them wait
\* for ever for a call that can return again and again.
SpecLocks ==
    /\ Started(LockOps, {SameSubnet}, {}, PeerStart)
    /\ [][\E t \in DOMAIN running :
             \/ /\ running[t].code = <<>>
                /\ budget > 0
                /\ budget' = budget - 1
                /\ \E code \in Programs(t) \ {<<>>} :
                      running' = [running EXCEPT ![t] = [code |-> code, at |-> 1]]
                /\ UNCHANGED <<clients, sendClosed, ipRooms, publicRooms, rooms,
                               ipRoom, publicRoom, send, pc, tmp, panicked,
                               writeStopped, wire, request, peerVars, rtcVars,
                               sigVars>>
             \/ Step(t)]_vars
    /\ \A t \in 0..(NumClients + 1) : SF_vars(Step(t))

\* The pumps of a client are goroutines that run when they can: a ReadPump
\* inside a handler finishes it, one whose connection was closed by its
\* WritePump gets the read error, and a WritePump whose channel was closed
\* gets to see that.
SpecPumps ==
    /\ Started(LiveOps, {SameSubnet}, Clients, PeerStart)
    /\ [][Next \/ \E c \in Clients : WritePumpReturns(c)]_vars
    /\ \A c \in Clients :
          /\ WF_vars(WritePump(c))
          /\ WF_vars(JoinIPRoomAdd(c))
          /\ WF_vars(CreatePublicRoomInsert(c))
          /\ WF_vars(JoinPublicRoomAdd(c))
          /\ WF_vars(c \in writeStopped /\ Unregister(c))
          /\ WF_vars(c \in sendClosed /\ WritePumpReturns(c))

\* One peer's WebRTCManager and the signaling messages it receives.
SpecRtc == PeerInit /\ [][RtcNext]_vars

\* The page's WebSocketManager, its sockets and its timers.
SpecSocket == PeerInit /\ [][SigNext]_vars


\* The two peers with what the event loop guarantees: a message that has
\* arrived is handled, a promise that has settled is continued, connect
\* returns, and the 10 s timer of waitForDataChannel fires unless the wait
\* has settled before.
SpecPeerLive ==
    /\ PeerInit
    /\ [][PeerNext]_vars
    /\ WF_vars(handleTransferResponse)
    /\ \A a \in 1..MaxClicks :
          /\ WF_vars(ConnectDone(a))
          /\ WF_vars(WaitResolved(a))
          /\ WF_vars(WaitFailed(a))

\* The sweep goroutine StartCleanup starts ticks for as long as the process
\* lives (server.go:42), so a sweep that stays possible happens.
SpecLive ==
    /\ Started(LiveOps, {SameSubnet}, {}, PeerStart)
    /\ [][Next]_vars /\ WF_vars(cleanupEmptyRooms)

\* ------------------------------------------------------- the hub's claims
\* The room lists the client.
Lists(r, c) == r # Nil /\ c \in rooms[r].clients
\* Target t is listed by the auto-scope room or the coded room of client c.
SharesRoom(c, t) == Lists(ipRoom[c], t) \/ Lists(publicRoom[c], t)
\* The room object is held in one of the hub's tables.
InTable(r) == r \in Range(ipRooms) \cup Range(publicRooms)
EmptyInTable(r) == InTable(r) /\ rooms[r].clients = {}
\* A coded room somebody is in.
LiveCoded(r) == rooms[r].isPublic /\ rooms[r].clients # {}

\* What C1 promises of a relay from c to t: the hub keeps running, and the
\* message is appended to t's queue if one of c's rooms lists t, and no queue
\* changes otherwise.
RelayOutcome(c, ty, t) ==
    /\ ~panicked'
    /\ send' = IF SharesRoom(c, t)
               THEN [send EXCEPT ![t] = Append(@, RelayedMessage(c, ty, t))]
               ELSE send

\* C1: a relayable message from c with target t is queued exactly once on
\* t's queue and on no other queue when one of c's rooms lists t, and on no
\* queue otherwise: no relay to a target whose queue has room ends otherwise.
C1_RelayDeliverySet ==
    [][\A c \in Clients, ty \in RelayTypes, t \in Clients :
        (/\ Len(send[t]) < SendCap
         /\ ~RelayOutcome(c, ty, t)
         /\ (panicked' \/ budget' = budget - 1))
        => ~relayToTarget(c, ty, t)]_vars

\* C2: a join-room with a code the coded-room table does not hold hands a
\* room-error to the requester's queue (queued unless the queue is full),
\* makes no room, and leaves the tables and every membership as they were.
C2_UnknownCodeRoomError ==
    [][\A c \in Clients, code \in Codes :
        (code \notin DOMAIN publicRooms /\ JoinPublicRoomLookup(c, code))
        => /\ send' = [send EXCEPT ![c] =
                          IF Len(@) < SendCap
                          THEN Append(@, NewRoomErrorMessage("room not found"))
                          ELSE @]
           /\ publicRooms' = publicRooms
           /\ ipRooms' = ipRooms
           /\ rooms' = rooms
           /\ publicRoom' = publicRoom
           /\ ipRoom' = ipRoom
           /\ pc'[c] = "idle"]_vars

\* A member of a coded room asked for an unknown code: it is still in its
\* room and the room-error follows the room-created in its queue.
C2_Witness ==
    \E c \in Clients, code \in Codes :
        /\ Lists(publicRoom[c], c)
        /\ publicRooms = (code :> publicRoom[c])
        /\ send[c] = <<NewRoomCreatedMessage(code),
                       NewRoomErrorMessage("room not found")>>

\* C3: no two coded rooms that have members carry the same code.
C3_UniqueLiveCodes ==
    \A r1 \in RoomObjs, r2 \in RoomObjs :
        (r1 # r2 /\ LiveCoded(r1) /\ LiveCoded(r2))
        => rooms[r1].id # rooms[r2].id

\* C4: a step that takes the last member out of a room held in a table takes
\* the room out of the table, and a room that is in a table with no member
\* does not stay so forever.
C4_EmptyRoomsRemoved ==
    /\ [][\A r \in RoomObjs :
            (InTable(r) /\ rooms[r].clients # {} /\ rooms'[r].clients = {})
            => r \notin Range(ipRooms') \cup Range(publicRooms')]_vars
    /\ \A r \in RoomObjs : EmptyInTable(r) ~> ~EmptyInTable(r)

\* JoinIPRoom has stored a new room and not yet added the client.
C4_Witness ==
    \E r \in RoomObjs, c \in Clients :
        EmptyInTable(r) /\ pc[c] = "joinIP" /\ tmp[c].room = r

\* The coded room objects that list client c: every Room object that still
\* exists counts, held in the table or only by a client's pointer.
CodedRoomsListing(c) ==
    {r \in RoomObjs : rooms[r].isPublic /\ c \in rooms[r].clients}

\* C11: whatever create-room, join-room and leave-room requests a session
\* has made, at most one coded room object lists it as a member.
C11_AtMostOneCodedRoom ==
    \A c \in Clients : Cardinality(CodedRoomsListing(c)) <= 1

\* The rooms of either table that list client c.
TableRoomsListing(c) == {r \in RoomObjs : InTable(r) /\ c \in rooms[r].clients}
\* The sessions that were in a room with c: the other members of the rooms
\* that list c.
Roommates(c) ==
    UNION {rooms[r].clients : r \in {x \in RoomObjs : c \in rooms[x].clients}}
    \ {c}
\* C12: when Unregister of session c has completed, c is out of the session
\* table, no room of either table lists it, each former roommate has been
\* sent one peer-left for it per room they shared, and no room c was in is
\* left in a table without a member.
C12_UnregisterCleansUp ==
    [][\A c \in Clients :
        (c \in clients /\ c \in sendClosed' /\ ~panicked')
        => /\ c \notin clients'
           /\ TableRoomsListing(c)' = {}
           /\ \A t \in Roommates(c) :
                 \/ Len(send[t]) = SendCap
                 \/ \E i \in 1..Len(send'[t]) :
                        send'[t][i] = NewPeerLeftMessage(c)
           /\ \A r \in RoomObjs :
                 (c \in rooms[r].clients /\ InTable(r))
                 => ~EmptyInTable(r)']_vars

\* ------------------------------------------------- the transfer's claims
\* The sender's bytes of the file a download is named after.
SentBytes(name) == transfer[name[1]].files[name[2] + 1]

\* C5: for a transfer the recipient completed on the Direct Path, every
\* download of one of its files holds the sender's bytes of that file, as
\* many as the declared size.
C5_DirectReassembly ==
    \A tid \in completedDirect : \A i \in 1..Len(sink) :
        sink[i].name[1] = tid
        => /\ sink[i].bytes = SentBytes(sink[i].name)
           /\ Len(sink[i].bytes) = Len(SentBytes(sink[i].name))

\* C6: for a transfer the recipient completed on the Relay Path, whatever the
\* arrival order of its relay-chunks, every file of the transfer is downloaded
\* and every download holds the sender's bytes.
C6_RelayAnyOrder ==
    \A tid \in completedRelay : \A f \in 1..Len(transfer[tid].files) :
        /\ \E i \in 1..Len(sink) : sink[i].name = FileName(tid, f - 1)
        /\ \A i \in 1..Len(sink) :
              sink[i].name = FileName(tid, f - 1)
              => sink[i].bytes = transfer[tid].files[f]

\* The first transfer-response sent for the transfer was a rejection.
RejectedFirst(tid) == responses[tid] # <<>> /\ ~responses[tid][1]
\* A transfer-response for the transfer is on its way to the initiator.
ResponseInFlight(tid) ==
    \E i \in 1..Len(wsToInitiator) : wsToInitiator[i].transferId = tid

\* C7: a transfer rejected before any accept gets exactly one
\* transfer-response, accepted = false; once the initiator has handled it the
\* transfer is 'rejected' and out of the map; and no frame, no relay-chunk and
\* no send loop ever exists for it.
C7_RejectBeforeAccept ==
    \A tid \in TransferIds :
        RejectedFirst(tid)
        => /\ responses[tid] = <<FALSE>>
           /\ tid \notin sentDirect \cup sentRelay
           /\ streams[tid] = 0
           /\ \A a \in DOMAIN loops : loops[a].tid # tid
           /\ IF ResponseInFlight(tid)
              THEN transfer[tid].status = "pending" /\ tid \in outgoingTransfers
              ELSE transfer[tid].status = "rejected" /\ tid \notin outgoingTransfers

\* The initiator has handled the rejection and the user has clicked again
\* since.
C7_Witness ==
    \E tid \in TransferIds :
        /\ RejectedFirst(tid)
        /\ transfer[tid].status = "rejected"
        /\ tid \notin outgoingTransfers
        /\ clicks = 0

\* C8: once a data channel frame has been sent for a transfer, no relay-chunk
\* is sent for it.
C8_PathNeverSwitches ==
    [][\A tid \in sentDirect :
          ~(/\ Len(wsToRecipient') = Len(wsToRecipient) + 1
            /\ wsToRecipient'[Len(wsToRecipient')].type = "relay-chunk"
            /\ wsToRecipient'[Len(wsToRecipient')].transferId = tid)]_vars

\* The status changes the state machine allows, one or several in a step.
StatusMayBecome(old, new) ==
    \/ new = old
    \/ old = "none" /\ new = "pending"
    \/ old = "pending" /\ new \in {"accepted", "transferring", "completed", "rejected"}
    \/ old = "accepted" /\ new \in {"transferring", "completed"}
    \/ old = "transferring" /\ new \in {"completed", "failed", "cancelled"}

\* C9: the status of an outgoing transfer moves only along
\* pending -> accepted -> transferring -> completed, pending -> rejected and
\* transferring -> failed / cancelled.
C9_StatusMachine ==
    [][\A tid \in TransferIds :
          StatusMayBecome(transfer[tid].status, transfer'[tid].status)]_vars

\* C10: no transfer has a second send loop, at the same time as the first or
\* after it.
C10_OneChunkStream ==
    \A tid \in TransferIds : streams[tid] <= 1

\* The chunk count the claim gives: the least n with n chunks covering size.
ExpectedChunks(size) ==
    CHOOSE n \in 0..size :
        n * ChunkSize >= size /\ (n = 0 \/ (n - 1) * ChunkSize < size)

\* The frames the claim gives for file f (counted from 0): the metadata
\* frame, then the chunk frames 0, 1, ... of ChunkSize bytes, the last one
\* with the rest.
ExpectedFileFrames(tid, files, f) ==
    LET file == files[f + 1]
        n == ExpectedChunks(Len(file))
    IN <<[msgType |-> MSG_METADATA,
          json |-> [transferId |-> tid, fileIndex |-> f,
                    name |-> FileName(tid, f), size |-> Len(file),
                    totalChunks |-> n]]>>
       \o [i \in 1..n |->
             [msgType |-> MSG_CHUNK, fileIndex |-> f, chunkIndex |-> i - 1,
              data |-> SubSeq(file, (i - 1) * ChunkSize + 1,
                              IF i < n THEN i * ChunkSize ELSE Len(file))]]

\* The frames the claim gives for a transfer: those of each file in index
\* order, then one complete frame.
ExpectedDirectFrames(tid, files) ==
    Concat([f \in 1..Len(files) |-> ExpectedFileFrames(tid, files, f - 1)])
    \o <<[msgType |-> MSG_COMPLETE, transferId |-> tid]>>

IsPrefix(s, t) == Len(s) <= Len(t) /\ s = SubSeq(t, 1, Len(s))

\* C13: the frames a Direct Path send has put on the channel are the first
\* frames of: per file in index order one metadata frame with totalChunks =
\* ceil(size / chunkSize) and that many chunk frames 0, 1, ... of chunkSize
\* bytes, the last with the rest, then one complete frame; they are all of
\* them once the send has completed. A file of 204800 bytes in chunks of
\* 65536 has 4 chunks, of 65536, 65536, 65536 and 8192 bytes.
C13_DirectFrameSequence ==
    /\ \A tid \in sentDirect :
          ~transfer[tid].useRelay
          => /\ IsPrefix(Frames(dc),
                         ExpectedDirectFrames(tid, transfer[tid].files))
             /\ transfer[tid].status = "completed"
                => Frames(dc) = ExpectedDirectFrames(tid, transfer[tid].files)
    /\ Ceil(204800, 65536) = 4
    /\ ChunkLengths(204800, 65536, 0) = <<65536, 65536, 65536, 8192>>

\* A send has completed whose file has several chunks, the last one short.
C13_Witness ==
    \E tid \in sentDirect :
        /\ transfer[tid].status = "completed"
        /\ ~transfer[tid].useRelay
        /\ dc # <<>>
        /\ dc[Len(dc)].frame = createCompleteMessage(tid)
        /\ \E i \in 1..Len(dc) :
              /\ dc[i].frame.msgType = MSG_CHUNK
              /\ dc[i].frame.chunkIndex >= 2
              /\ Len(dc[i].frame.data) < ChunkSize
\* The last message on the recipient's signaling path after a step that has
\* put one there.
Appended == wsToRecipient'[Len(wsToRecipient')]

\* C14: of the relay-chunks of a Relay Path transfer, the one after which the
\* sender has no chunk left to send carries isLast = true and every other one
\* isLast = false; on receipt of the isLast chunk the recipient hands one
\* download per file of the transfer to the sink, counts the transfer as
\* completed and drops its state.
C14_IsLastOnFinalChunk ==
    [][/\ \A a \in DOMAIN loops :
            (/\ loops[a].pc = "relay"
             /\ Len(wsToRecipient') = Len(wsToRecipient) + 1
             /\ Appended.type = "relay-chunk")
            => Appended.isLast
               = (loops'[a].fileIndex >= Len(transfer[loops[a].tid].files))
       /\ (/\ wsToRecipient # <<>>
           /\ wsToRecipient' = Tail(wsToRecipient)
           /\ Head(wsToRecipient).type = "relay-chunk"
           /\ Head(wsToRecipient).isLast
           /\ Head(wsToRecipient).transferId \in DOMAIN incomingTransfers)
          => LET tid == Head(wsToRecipient).transferId
                 files == transfer[tid].files
             IN /\ Len(sink') = Len(sink) + Len(files)
                /\ \A f \in 1..Len(files) :
                      sink'[Len(sink) + f].name = FileName(tid, f - 1)
                /\ tid \in completedRelay'
                /\ tid \notin DOMAIN incomingTransfers']_vars
\* Call a has started delivery on the Direct Path in this step.
StartsDirect(a) ==
    LET tid == loops[a].tid
    IN /\ streams' = [streams EXCEPT ![tid] = @ + 1]
       /\ tid \in sentDirect'
       /\ ~transfer'[tid].useRelay
       /\ a \in DOMAIN loops' => loops'[a].pc = "direct"

\* Call a has started delivery on the Relay Path in this step.
StartsRelay(a) ==
    LET tid == loops[a].tid
    IN /\ streams' = [streams EXCEPT ![tid] = @ + 1]
       /\ transfer'[tid].useRelay
       /\ sentDirect' = sentDirect
       /\ a \in DOMAIN loops' => loops'[a].pc = "relay"

\* C15: a call that handles accepted = true for a pending transfer starts
\* delivery on the Direct Path at once if it finds an open channel, and else
\* waits; a wait that a channel-open signal for the peer has resolved starts
\* the Direct Path, a wait that the timer or connection-failed has ended
\* starts the Relay Path, and each wait ends once, with one path started; and
\* no transfer stays 'accepted' forever.
C15_OnePathAfterAccept ==
    /\ [][\A a \in DOMAIN loops :
            LET tid == loops[a].tid
                settles == a \notin DOMAIN loops' \/ loops'[a].pc # loops[a].pc
            IN /\ (loops[a].pc = "resolved" /\ settles) => StartsDirect(a)
               /\ (loops[a].pc = "wait" /\ settles)
                  => \/ loops'[a].pc = "resolved" /\ streams' = streams
                     \/ StartsRelay(a)
               /\ (loops[a].pc = "connect" /\ settles)
                  => \/ loops'[a].pc = "wait" /\ streams' = streams
                     \/ StartsDirect(a)]_vars
    /\ \A tid \in TransferIds :
          (transfer[tid].status = "accepted")
          ~> (transfer[tid].status # "accepted")
\* The data channels to the peer that exist: created and not closed.
LiveChannels == {i \in DOMAIN channel.state : channel.state[i] # "closed"}

\* The candidates of the addIceCandidate calls made, in order.
AppliedCandidates == [i \in 1..Len(applied) |-> applied[i].candidate]

\* C16: no candidate is applied to a connection that has no remote
\* description; a candidate that arrived before is queued, and the queued
\* candidates are applied once each, in arrival order, none left out once
\* the description is there and the handlers have run.
C16_CandidatesAfterDescription ==
    /\ \A i \in 1..Len(applied) : applied[i].described
    /\ \A i, j \in 1..Len(applied) :
          (i < j /\ applied[i].candidate \in queued
                 /\ applied[j].candidate \in queued)
          => applied[i].candidate < applied[j].candidate
    /\ (connection # Nil /\ calls = <<>>)
       => (sessions[connection].remote
           => queued \subseteq Range(AppliedCandidates))

\* C17: for the peer there is at most one RTCPeerConnection and at most one
\* data channel, and a channel that is open is the one recorded for the peer.
C17_OneChannelPerPeer ==
    /\ Len(sessions) <= 1
    /\ Cardinality(LiveChannels) <= 1
    /\ \A i \in DOMAIN channel.state :
          channel.state[i] = "open" => channel.recorded = i
\* C18: the messages handed over are transmitted in the order they were
\* handed over, each once (queued ones before later ones), and a message
\* handed over is either transmitted or still queued: none is lost.
C18_QueueFlushedInOrder ==
    /\ \A i, j \in 1..Len(transmitted) :
          i < j => transmitted[i] < transmitted[j]
    /\ \A i, j \in 1..Len(messageQueue) :
          i < j => messageQueue[i] < messageQueue[j]
    /\ Range(transmitted) \cap Range(messageQueue) = {}
    /\ Range(transmitted) \cup Range(messageQueue) = 1..handed

\* C19: once disconnect() has been called no reconnect timer fires: the
\* channel starts no connect by itself.
C19_NoReconnectAfterDisconnect ==
    [][stopped => timers'.reconnect >= timers.reconnect]_vars

\* No socket is connecting, open or closing, and no timer is pending.
Terminal ==
    /\ \A s \in DOMAIN sockets : sockets[s] = "closed"
    /\ timers = [reconnect |-> 0, owner |-> 0]

\* C20: the automatic attempts in a row never exceed the maximum; with the
\* counter at the maximum a close schedules no attempt; with every socket
\* closed and no timer pending nothing connects until the page does; and a
\* socket that opens puts the counter back to 0.
C20_ReconnectAttemptsBounded ==
    /\ [](streak <= MaxReconnectAttempts)
    /\ [][reconnectAttempts >= MaxReconnectAttempts
          => timers'.reconnect <= timers.reconnect]_vars
    /\ [][(Terminal /\ sockets # <<>>)
          => (sockets' = sockets /\ ~isConnected')]_vars
    /\ [][\A s \in DOMAIN sockets :
            (sockets[s] = "connecting" /\ sockets'[s] = "open")
            => reconnectAttempts' = 0]_vars

\* The last allowed attempt has failed and nothing was scheduled.
C20_Witness ==
    /\ Terminal
    /\ ~stopped
    /\ streak = MaxReconnectAttempts
    /\ reconnectAttempts = MaxReconnectAttempts
\* C21: the reconnect delay stays between the base (1000 ms) and the cap
\* (30000 ms); the first reconnect timer set after an open, or after the
\* start, waits the base, each further one min(1.5 times the one before,
\* cap); an open puts the delay back to the base.
C21_ReconnectDelay ==
    /\ [](/\ reconnectDelay >= 1000 * UnitsPerMs
          /\ reconnectDelay <= 30000 * UnitsPerMs
          /\ \A i \in 1..Len(waits) :
                waits[i] = IF i = 1 THEN 1000 * UnitsPerMs
                           ELSE IF waits[i - 1] * 3 <= 60000 * UnitsPerMs
                           THEN (waits[i - 1] * 3) \div 2
                           ELSE 30000 * UnitsPerMs)
    /\ [][timers'.reconnect > timers.reconnect
          => Len(waits') = Len(waits) + 1]_vars
    /\ [][\A s \in DOMAIN sockets :
            (sockets[s] = "connecting" /\ sockets'[s] = "open")
            => reconnectDelay' = 1000 * UnitsPerMs /\ waits' = <<>>]_vars

\* A reconnect timer was set with the cap as its delay.
C21_Witness ==
    /\ Len(waits) > 1
    /\ waits[Len(waits)] = 30000 * UnitsPerMs
    /\ waits[Len(waits) - 1] < 30000 * UnitsPerMs
\* C22: no outbound queue ever holds more than its capacity; a step that
\* finds a queue full leaves it as it is (the message is dropped), unless it
\* is the write pump taking messages off its head; and a join that drops
\* the peers message for the joiner's full queue still queues the
\* peer-joined notice for every other member whose queue has room.
C22_SendNeverBlocks ==
    /\ [](\A c \in Clients : Len(send[c]) <= SendCap)
    /\ [][~panicked' =>
            \A t \in Clients :
              Len(send[t]) = SendCap =>
                \/ send'[t] = send[t]
                \/ \E k \in 1..SendCap :
                      send'[t] = SubSeq(send[t], k + 1, SendCap)]_vars
    /\ [][\A c \in Clients :
            (pc[c] = "joinIP" /\ pc'[c] = "idle" /\ ~panicked') =>
               \A t \in rooms'[ipRoom'[c]].clients \ {c} :
                  Len(send[t]) < SendCap =>
                     send'[t] = Append(send[t],
                                       NewPeerJoinedMessage(PeerInfo(c)))]_vars

\* A client joined its auto-scope room with a full queue: it holds no peers
\* message, and the member that was there holds the peer-joined notice.
C22_Witness ==
    \E c, t \in Clients :
      /\ c # t
      /\ ipRoom[c] # Nil
      /\ ipRoom[t] = ipRoom[c]
      /\ Len(send[c]) = SendCap
      /\ \A i \in 1..SendCap : send[c][i].type = "room-error"
      /\ \E i \in 1..Len(send[t]) :
            send[t][i] = NewPeerJoinedMessage(PeerInfo(c))
\* C23: when a client submits an envelope for relay, the only queue that can
\* change is the target's, and what is added to it is the envelope with its
\* type, target and payload as submitted and the sender's hub-assigned id
\* as peerId, whatever peerId the sender wrote.
C23_RelayStampsSender ==
    [][\A c \in Clients, msg \in Inbound :
         (budget' = budget - 1 /\ pc' = pc /\ relayInbound(c, msg)) =>
            \A t \in Clients :
               \/ send'[t] = send[t]
               \/ /\ t = msg.targetId
                  /\ send'[t] = Append(send[t],
                        [type |-> msg.type, peerId |-> c,
                         targetId |-> msg.targetId,
                         payload |-> msg.payload])]_vars

\* A target holds an envelope that its sender submitted under the target's
\* own id or under no id.
C23_Witness ==
    \E t \in Clients :
      \E i \in 1..Len(send[t]) :
         /\ send[t][i].type \in RelayTypes
         /\ send[t][i].peerId \in Clients \ {t}
         /\ send[t][i].payload = "sdp"
\* The auto-scope room identity of a client's connection.
IdentityOf(c) == ExtractIPRoomID(ip(c), <<>>)

\* C24: the step that completes a client's join of its auto-scope room
\* queues for it one peers message that lists the other members of the
\* room and not itself, queues one peer-joined notice for each other
\* member and none for the joiner, and touches no other queue (a full queue
\* drops its message, C22); and two clients of one identity that are
\* joining at the same time are joining the same room, so that each is in
\* the other's list or is told of the other.
C24_JoinAnnounced ==
    /\ [][\A c \in Clients :
            (pc[c] = "joinIP" /\ pc'[c] = "idle" /\ ~panicked') =>
               LET members == rooms'[ipRoom'[c]].clients
                   peers == NewPeersMessage({PeerInfo(t) : t \in members \ {c}})
                   joined == NewPeerJoinedMessage(PeerInfo(c))
               IN \A t \in Clients :
                    send'[t] = IF Len(send[t]) = SendCap THEN send[t]
                               ELSE IF t = c THEN Append(send[t], peers)
                               ELSE IF t \in members
                               THEN Append(send[t], joined)
                               ELSE send[t]]_vars
    /\ [](\A a, b \in Clients :
            (pc[a] = "joinIP" /\ pc[b] = "joinIP"
             /\ IdentityOf(a) = IdentityOf(b))
            => tmp[a].room = tmp[b].room)
\* C25: a client whose read fails is unregistered in that step and its
\* queue closed, and it is never registered or unregistered again; once the
\* queue is closed the WritePump returns; and a WritePump that returned on a
\* failed write leads to the client being unregistered. (Or the process has
\* ended in a panic, which ends every pump.)
C25_PumpsTerminate ==
    /\ [][\A c \in Clients :
            /\ (c \in clients /\ c \notin clients' /\ ~panicked')
                  => c \in sendClosed' \ sendClosed
            /\ (c \in sendClosed /\ ~panicked')
                  => (c \in sendClosed' /\ c \notin clients')]_vars
    /\ \A c \in Clients :
          /\ (c \in sendClosed) ~> (c \in writeStopped \/ panicked)
          /\ (c \in clients /\ c \in writeStopped)
                ~> (c \in sendClosed \/ panicked)

\* A client is unregistered, its queue closed and its WritePump has returned.
C25_Witness ==
    /\ ~panicked
    /\ \E c \in Clients : c \in sendClosed /\ c \in writeStopped
\* C26: when the send of a chunk on the data channel fails after the Direct
\* Path has started, the call ends there and the transfer is 'failed':
\* nothing is sent again for it.
C26_FailedNotRetried ==
    [][\A a \in DOMAIN loops :
         (/\ loops[a].pc = "direct"
          /\ channel.state[loops[a].chan] # "open"
          /\ (a \notin DOMAIN loops' \/ loops'[a] # loops[a]))
         => (/\ a \notin DOMAIN loops'
             /\ transfer'[loops[a].tid].status = "failed"
             /\ sentRelay' = sentRelay)]_vars
\* What no protocol error may change: the registry, the tables, the rooms,
\* the memberships and the queues.
Kept == <<clients, sendClosed, ipRooms, publicRooms, rooms, ipRoom,
          publicRoom, send>>

\* C27: a message that does not decode or has an unrecognized type, and an
\* envelope for relay with an empty target or a target that none of the
\* sender's rooms lists, change nothing of the registry, the rooms and the
\* queues; a ping queues one pong for its sender (unless its queue is full)
\* and changes nothing else.
C27_ProtocolErrorsDropped ==
    [][(budget' = budget - 1 /\ pc' = pc /\ ~panicked') =>
        /\ \A c \in Clients :
              (handleMessageDropped(c, "undecodable")
               \/ handleMessageDropped(c, "unrecognized type"))
              => Kept' = Kept
        /\ \A c \in Clients, msg \in Inbound :
              ((msg.targetId = Nil \/ ~SharesRoom(c, msg.targetId))
               /\ relayInbound(c, msg))
              => Kept' = Kept
        /\ \A c \in Clients :
              handlePing(c)
              => /\ send' = [send EXCEPT ![c] =
                              IF Len(@) < SendCap
                              THEN Append(@, NewPongMessage) ELSE @]
                 /\ <<clients, sendClosed, ipRooms, publicRooms, rooms,
                      ipRoom, publicRoom>>'
                    = <<clients, sendClosed, ipRooms, publicRooms, rooms,
                        ipRoom, publicRoom>>]_vars

\* A client that has joined no room sent MaxOps messages, one of them a
\* ping: it holds the pong and nothing else.
C27_Witness ==
    \E c \in Clients :
      /\ budget = 0
      /\ clients = {c}
      /\ ipRoom[c] = Nil
      /\ send[c] = <<NewPongMessage>>

\* C28: for each incoming transfer id the recipient sends at most one
\* transfer-response, whatever acceptTransfer and rejectTransfer calls are
\* made for that id and in whatever order.
C28_OneResponsePerTransfer ==
    \A tid \in TransferIds : Len(responses[tid]) <= 1

\* --------------------------------------------- the peer's end of the wire
\* websocket.js 81: data.split('\n').
RECURSIVE Split(_)
Split(data) ==
    IF \E i \in DOMAIN data : data[i] = Newline
    THEN LET i == Min({j \in DOMAIN data : data[j] = Newline})
         IN <<SubSeq(data, 1, i - 1)>> \o Split(SubSeq(data, i + 1, Len(data)))
    ELSE <<data>>

\* websocket.js 87-93: the event dispatched for a message.
CustomEvent(msg) == [type |-> msg.type, detail |-> msg]

\* websocket.js 78-98: the events one transport message is dispatched as. The
\* empty lines are filtered out; JSON.parse throws on a line that is not one
\* JSON text, and the catch is outside the loop: the lines after it are lost.
RECURSIVE handleMessage(_)
handleMessage(messages) ==
    IF messages = <<>> \/ Len(Head(messages)) # 1 THEN <<>>
    ELSE <<CustomEvent(Head(messages)[1])>> \o handleMessage(Tail(messages))

\* The events the peer of client c has had, then those of the queued messages.
Stream(c) ==
    Concat([i \in DOMAIN wire[c] |->
               handleMessage(SelectSeq(Split(wire[c][i]), LAMBDA m : m # <<>>))])
    \o [i \in DOMAIN send[c] |-> CustomEvent(send[c][i])]

\* C29: the messages a client's queue holds are written to the transport
\* once each and in queue order: a transport write takes messages from the
\* head of the queue, as many events are dispatched for it at the peer, in
\* the same order, and nothing else changes what the peer has had or will
\* have; a queued message is written unless the pump returns first.
C29_WrittenOnceInOrder ==
    /\ [][\A c \in Clients :
            ~panicked'
            => /\ IsPrefix(Stream(c), Stream(c)')
               /\ wire'[c] # wire[c]
                  => /\ Stream(c)' = Stream(c)
                     /\ Len(wire'[c]) = Len(wire[c]) + 1
                     /\ Len(send'[c]) < Len(send[c])]_vars
    /\ \A c \in Clients :
          (send[c] # <<>>) ~> (send[c] = <<>> \/ c \in writeStopped \/ panicked)

\* One transport write carried two messages, dispatched as two events.
C29_Witness ==
    /\ ~panicked
    /\ \E c \in Clients : \E i \in DOMAIN wire[c] :
          /\ Len(wire[c][i]) = 3
          /\ Len(handleMessage(Split(wire[c][i]))) = 2

\* The address a session originates from: the first address of the
\* X-Forwarded-For header when a proxy wrote one, the peer address of the
\* connection otherwise.
Origin(c) ==
    IF request[c].xForwardedFor # <<>> THEN request[c].xForwardedFor[1]
    ELSE request[c].remoteAddr[1]

\* C30: two sessions in auto-scope rooms are in rooms of the same identity
\* if and only if they originate from IPv4 addresses with the same first
\* three octets, from IPv6 addresses with the same leading 64 bits, or both
\* from something that is no address, whatever the ports and the order of
\* the joins; the identity of the latter is 'default'.
C30_IdentityBySubnet ==
    \A c, d \in clients :
        (ipRoom[c] # Nil /\ ipRoom[d] # Nil)
        => /\ rooms[ipRoom[c]].id = rooms[ipRoom[d]].id
              <=> \/ /\ Origin(c).form = "v4" /\ Origin(d).form = "v4"
                     /\ SubSeq(Origin(c).b, 1, 3) = SubSeq(Origin(d).b, 1, 3)
                  \/ /\ Origin(c).form = "v6" /\ Origin(d).form = "v6"
                     /\ SubSeq(Origin(c).b, 1, 8) = SubSeq(Origin(d).b, 1, 8)
                  \/ Origin(c).form = "text" /\ Origin(d).form = "text"
           /\ Origin(c).form = "text" => rooms[ipRoom[c]].id = <<"default">>

\* C31: no room lists a session whose queue Unregister has closed, and so
\* no Send is ever made on a closed queue (a Send that would ends the
\* process).
C31_NoSendAfterClose ==
    /\ ~panicked
    /\ \A r \in RoomObjs : rooms[r].clients \cap sendClosed = {}

\* C32: whenever no handler is in progress, the auto-scope room of a
\* registered session is the room the table holds under the identity of its
\* address and lists the session, and every auto-scope room that has a
\* member is in the table.
C32_TablesConsistent ==
    (~panicked /\ \A c \in Clients : pc[c] = "idle")
    => /\ \A c \in clients :
             ipRoom[c] # Nil
             => /\ IdentityOf(c) \in DOMAIN ipRooms
                /\ ipRooms[IdentityOf(c)] = ipRoom[c]
                /\ c \in rooms[ipRoom[c]].clients
       /\ \A r \in RoomObjs :
             (~rooms[r].isPublic /\ rooms[r].clients # {})
             => r \in Range(ipRooms)

\* C33: when a join-room has succeeded, the coded-room table holds under the
\* requested code the room the joiner is now in, and that room lists the
\* joiner.
C33_JoinedRoomInTable ==
    [][\A c \in Clients :
        (pc[c] = "joinPub" /\ pc'[c] = "idle" /\ ~panicked')
        => /\ tmp[c].code \in DOMAIN publicRooms'
           /\ publicRooms'[tmp[c].code] = publicRoom'[c]
           /\ c \in rooms'[publicRoom'[c]].clients]_vars

\* The recipient has completed the transfer, holds no state for it, and the
\* sink has had each of its files once.
Agreed(tid) ==
    /\ tid \in completedDirect \cup completedRelay
    /\ tid \notin DOMAIN incomingTransfers
    /\ \A f \in 1..Len(transfer[tid].files) :
          Cardinality({i \in 1..Len(sink) :
                          sink[i].name = FileName(tid, f - 1)}) = 1

\* C34: when the initiator has marked a transfer completed, on either path
\* and with no message lost, the recipient eventually has completed it,
\* released its state and handed each file to the sink exactly once.
C34_CompletionAgreed ==
    \A tid \in TransferIds :
        (transfer[tid].status = "completed") ~> Agreed(tid)

\* C35: a frame taken from the data channel or a relay-chunk taken from the
\* signaling path leaves every incoming transfer that is still pending as
\* it was, and the file a transfer is receiving is a file of that transfer.
C35_FramesReachTheirTransfer ==
    /\ [][\A tid \in DOMAIN incomingTransfers :
            (/\ incomingTransfers[tid].status = "pending"
             /\ \/ dc # <<>> /\ dc' = Tail(dc)
                \/ /\ wsToRecipient # <<>>
                   /\ Head(wsToRecipient).type = "relay-chunk"
                   /\ wsToRecipient' = Tail(wsToRecipient))
            => /\ tid \in DOMAIN incomingTransfers'
               /\ incomingTransfers'[tid] = incomingTransfers[tid]]_vars
    /\ \A tid \in DOMAIN incomingTransfers :
          incomingTransfers[tid].currentFileMetadata # <<>>
          => incomingTransfers[tid].currentFileMetadata[1].name[1] = tid

\* C36: when a step leaves a peer-left for session p as the hub's last notice
\* about p on the queue of session s, and the queue had room for every notice
\* of that step, no room of s lists p after the step: the hub no longer
\* relays the directed messages of s to p.
C36_PeerLeftMeansUnreachable ==
    [][\A s, p \in Clients :
        (/\ ~panicked'
         /\ IsPrefix(send[s], send'[s])
         /\ Len(send'[s]) < SendCap
         /\ \E i \in (Len(send[s]) + 1)..Len(send'[s]) :
                /\ send'[s][i] = NewPeerLeftMessage(p)
                /\ \A j \in (i + 1)..Len(send'[s]) :
                      send'[s][j] # NewPeerJoinedMessage(PeerInfo(p)))
        => ~SharesRoom(s, p)']_vars

\* C37: while the socket most recently created by connect() is open, the
\* connected flag is true: the close event of a superseded socket does not
\* mark the channel disconnected, and sends are not queued.
C37_FlagOfCurrentSocket == readyState = "open" => isConnected

\* C38: once every connect() that follows a disconnect() has been made, an
\* unexpected close of the current socket schedules a reconnect attempt as
\* long as fewer than the constructor's maximum of attempts were made.
C38_ReconnectAfterExplicitConnect ==
    [][(/\ stopped
        /\ timers.owner = 0
        /\ readyState \in {"connecting", "open"}
        /\ sockets'[Len(sockets)] = "closed"
        /\ reconnectAttempts < MaxReconnectAttempts)
       => timers'.reconnect = timers.reconnect + 1]_vars

\* C39: on a reconnect, the first message the newly opened socket is given is
\* the join of the new session: nothing that was queued while the channel
\* was disconnected reaches the hub before it.
C39_JoinBeforeQueued ==
    [][(/\ Len(sockets) > 1
        /\ sockets[Len(sockets)] = "connecting"
        /\ sockets'[Len(sockets)] = "open"
        /\ Len(transmitted') > Len(transmitted))
       => transmitted'[Len(transmitted) + 1] \in joins']_vars

\* C40: a goroutine that is about to take a table lock holds no room lock,
\* and every operation a goroutine has begun returns.
C40_DeadlockFree ==
    /\ [](\A t \in DOMAIN running :
            (/\ running[t].code # <<>>
             /\ running[t].code[running[t].at].op \in {"Lock", "RLock"}
             /\ running[t].code[running[t].at].mu # "mu")
            => Cardinality({k \in 1..(running[t].at - 1) :
                              /\ running[t].code[k].mu = "mu"
                              /\ running[t].code[k].op \in {"Lock", "RLock"}})
               = Cardinality({k \in 1..(running[t].at - 1) :
                              /\ running[t].code[k].mu = "mu"
                              /\ running[t].code[k].op \in {"Unlock", "RUnlock"}}))
    /\ \A t \in 0..(NumClients + 1) :
          (running[t].code # <<>>) ~> (running[t].code = <<>>)

\* The sweep holds a table lock and waits for the lock of a room that a
\* client's goroutine holds.
C40_Witness ==
    /\ running[0].code # <<>>
    /\ ~Acquires(0)
    /\ running[0].code[running[0].at].mu = "mu"

====
